---- MODULE Spec2Model ----
(***************************************************************************)
(* A model of the AASX / OPC package library (aas-package3-typescript).    *)
(*                                                                         *)
(* Strings are sequences of one-character strings, so that the path        *)
(* functions (split, lower-casing, dot-segment normalisation, the          *)
(* relationship-document path mapping) are computed the way the code       *)
(* computes them.  A JavaScript Map is a sequence of <<key, value>> pairs  *)
(* in insertion order.                                                     *)
(***************************************************************************)
EXTENDS Integers, Sequences, FiniteSets, TLC

\* ------------------------------------------------------------------------
\* Strings
\* ------------------------------------------------------------------------

SeqToSet(s) == { s[i] : i \in 1..Len(s) }

\* String.prototype.toLowerCase, on the alphabet the model uses.
LowerChar(c) ==
  CASE c = "A" -> "a"
    [] c = "B" -> "b"
    [] c = "C" -> "c"
    [] c = "D" -> "d"
    [] c = "X" -> "x"
    [] OTHER -> c

toLowerCase(s) == [i \in 1..Len(s) |-> LowerChar(s[i])]

startsWith(s, p) == Len(s) >= Len(p) /\ SubSeq(s, 1, Len(p)) = p

endsWith(s, p) == Len(s) >= Len(p) /\ SubSeq(s, Len(s) - Len(p) + 1, Len(s)) = p

includes(s, p) == \E i \in 1..(Len(s) - Len(p) + 1) : SubSeq(s, i, i + Len(p) - 1) = p

\* String.prototype.lastIndexOf for a single character; 0-based, -1 when absent.
lastIndexOf(s, c) ==
  IF \E i \in 1..Len(s) : s[i] = c
    THEN (CHOOSE i \in 1..Len(s) : s[i] = c /\ \A j \in (i+1)..Len(s) : s[j] # c) - 1
    ELSE -1

\* String.prototype.slice(from) and slice(0, to) with 0-based offsets.
sliceFrom(s, from) == SubSeq(s, from + 1, Len(s))

sliceTo(s, to) == SubSeq(s, 1, to)

\* String.prototype.split('/').
RECURSIVE SplitAcc(_, _, _)
SplitAcc(s, cur, acc) ==
  IF s = <<>> THEN Append(acc, cur)
  ELSE IF Head(s) = "/" THEN SplitAcc(Tail(s), <<>>, Append(acc, cur))
  ELSE SplitAcc(Tail(s), Append(cur, Head(s)), acc)

split(s) == SplitAcc(s, <<>>, <<>>)

\* Array.prototype.join('/').
RECURSIVE join(_)
join(segs) ==
  IF segs = <<>> THEN <<>>
  ELSE IF Len(segs) = 1 THEN segs[1]
  ELSE segs[1] \o <<"/">> \o join(Tail(segs))

\* target.replace(/\\/g, '/')
RECURSIVE replaceBackslashes(_)
replaceBackslashes(s) ==
  IF s = <<>> THEN <<>>
  ELSE <<(IF Head(s) = "\\" THEN "/" ELSE Head(s))>> \o replaceBackslashes(Tail(s))

\* ------------------------------------------------------------------------
\* Path helpers
\* ------------------------------------------------------------------------

trimTrailingSlash(path) ==
  IF Len(path) > 1 /\ endsWith(path, <<"/">>) THEN sliceTo(path, Len(path) - 1) ELSE path

ensureLeadingSlash(path) == IF startsWith(path, <<"/">>) THEN path ELSE <<"/">> \o path

trimLeadingSlash(path) == IF startsWith(path, <<"/">>) THEN sliceFrom(path, 1) ELSE path

dirName(path) ==
  LET normalized == trimTrailingSlash(path)
      index == lastIndexOf(normalized, "/")
  IN  IF index <= 0 THEN <<"/">> ELSE sliceTo(normalized, index)

baseName(path) ==
  LET normalized == trimTrailingSlash(path)
      index == lastIndexOf(normalized, "/")
  IN  IF index < 0 THEN normalized ELSE sliceFrom(normalized, index + 1)

extName(path) ==
  LET base == baseName(path)
      index == lastIndexOf(base, ".")
  IN  IF index <= 0 THEN <<>> ELSE sliceFrom(base, index)

\* The stack loop of normalizePath: '' and '.' are skipped, '..' pops.
RECURSIVE NormalizeStack(_, _)
NormalizeStack(segments, stack) ==
  IF segments = <<>> THEN stack
  ELSE LET segment == Head(segments)
       IN  IF segment = <<>> \/ segment = <<".">>
             THEN NormalizeStack(Tail(segments), stack)
           ELSE IF segment = <<".", ".">>
             THEN NormalizeStack(Tail(segments),
                                 IF stack = <<>> THEN stack ELSE SubSeq(stack, 1, Len(stack) - 1))
           ELSE NormalizeStack(Tail(segments), Append(stack, segment))

\* A normalisation that drops the empty segments only.
normalizePathKeepingDots(input) ==
  <<"/">> \o join(SelectSeq(split(input), LAMBDA segment : segment # <<>>))

normalizePath(input) == <<"/">> \o join(NormalizeStack(split(input), <<>>))

\* A key that keeps the letter case of the path.
normalizePathKeepingCase(path) ==
  IF path = <<>> THEN <<>>
  ELSE normalizePath(IF startsWith(path, <<"/">>) THEN path ELSE <<"/">> \o path)

normalizePathForMap(path) ==
  IF path = <<>> THEN <<>>
  ELSE LET withPrefix == IF startsWith(path, <<"/">>) THEN path ELSE <<"/">> \o path
       IN  toLowerCase(normalizePath(withPrefix))

\* A URL is its protocol, host and pathname; toString() concatenates them.
urlToString(uri) ==
  uri.protocol \o (IF uri.host = <<>> THEN <<>> ELSE <<"/", "/">> \o uri.host) \o uri.pathname

pathFromUri(uri) == IF uri.pathname # <<>> THEN uri.pathname ELSE urlToString(uri)

normalizeURI(uri) ==
  LET value == pathFromUri(uri)
  IN  normalizePathForMap(IF startsWith(value, <<"/">>) THEN value ELSE <<"/">> \o value)

\* The URL parser's path state: a '.' segment is dropped and a '..' segment
\* removes the segment before it (a trailing one leaves an empty last segment);
\* every other segment, also an empty one, is kept with its case.
RECURSIVE UrlPathStack(_, _)
UrlPathStack(segments, stack) ==
  IF segments = <<>> THEN stack
  ELSE LET segment == Head(segments)
           last    == Len(segments) = 1
           popped  == IF stack = <<>> THEN stack ELSE SubSeq(stack, 1, Len(stack) - 1)
       IN  IF segment = <<".", ".">>
             THEN UrlPathStack(Tail(segments), IF last THEN Append(popped, <<>>) ELSE popped)
           ELSE IF segment = <<".">>
             THEN UrlPathStack(Tail(segments), IF last THEN Append(stack, <<>>) ELSE stack)
           ELSE UrlPathStack(Tail(segments), Append(stack, segment))

\* The URL parser's percent-encoding of the path: a space becomes %20.
RECURSIVE percentEncode(_)
percentEncode(s) ==
  IF s = <<>> THEN <<>>
  ELSE (IF Head(s) = " " THEN <<"%", "2", "0">> ELSE <<Head(s)>>) \o percentEncode(Tail(s))

\* new URL(`https://package.local${ensureLeadingSlash(path)}`)
asPackageUrl(path) ==
  [protocol |-> <<"h", "t", "t", "p", "s", ":">>,
   host     |-> <<"p", "a", "c", "k", "a", "g", "e", ".", "l", "o", "c", "a", "l">>,
   pathname |-> percentEncode(
                  <<"/">> \o join(UrlPathStack(Tail(split(ensureLeadingSlash(path))), <<>>)))]

\* /\/_rels$/ and /^_rels$/ replaced by ''.
RelsSuffix == <<"/", "_", "r", "e", "l", "s">>

RelsDir == <<"_", "r", "e", "l", "s">>

DotRels == <<".", "r", "e", "l", "s">>

RelsSlash == <<"_", "r", "e", "l", "s", "/">>

RootRelsName == <<"_", "r", "e", "l", "s", "/", ".", "r", "e", "l", "s">>

getSourcePathFromRelsPath(relsPath) ==
  LET clean == trimLeadingSlash(relsPath)
      d0    == dirName(clean)
      d1    == IF endsWith(d0, RelsSuffix) THEN sliceTo(d0, Len(d0) - Len(RelsSuffix)) ELSE d0
      dir   == IF d1 = RelsDir THEN <<>> ELSE d1
      b0    == baseName(clean)
      base  == IF endsWith(b0, DotRels) THEN sliceTo(b0, Len(b0) - Len(DotRels)) ELSE b0
  IN  IF clean = RootRelsName THEN <<>>
      ELSE IF dir = <<>> \/ dir = <<".">> THEN ensureLeadingSlash(base)
      ELSE ensureLeadingSlash(dir \o <<"/">> \o base)

getRelsPath(sourcePath) ==
  LET normalized == normalizePathForMap(sourcePath)
      dir  == dirName(normalized)
      base == baseName(normalized)
  IN  IF normalized = <<>> THEN <<"/">> \o RootRelsName
      ELSE IF dir = <<>> \/ dir = <<"/">> THEN <<"/">> \o RelsSlash \o base \o DotRels
      ELSE dir \o <<"/">> \o RelsSlash \o base \o DotRels

\* A resolution against the package root, whatever the source.
resolveRelativeURIFromRoot(sourcePath, target) ==
  LET normalizedTarget == replaceBackslashes(target)
  IN  IF startsWith(normalizedTarget, <<"/">>) THEN normalizedTarget
      ELSE normalizePath(<<"/", "/">> \o normalizedTarget)

resolveRelativeURI(sourcePath, target) ==
  LET normalizedTarget == replaceBackslashes(target)
      sourceDirectory  == IF sourcePath = <<>> THEN <<"/">> ELSE dirName(sourcePath)
  IN  IF startsWith(normalizedTarget, <<"/">>) THEN normalizedTarget
      ELSE normalizePath(sourceDirectory \o <<"/">> \o normalizedTarget)

\* ------------------------------------------------------------------------
\* Map<K, V>: <<key, value>> pairs in insertion order
\* ------------------------------------------------------------------------

MapHas(m, k) == \E i \in 1..Len(m) : m[i][1] = k

MapGet(m, k) == m[CHOOSE i \in 1..Len(m) : m[i][1] = k][2]

\* set: an existing key keeps its position, a new key goes last.
MapSet(m, k, v) ==
  IF MapHas(m, k)
    THEN [i \in 1..Len(m) |-> IF m[i][1] = k THEN <<k, v>> ELSE m[i]]
    ELSE Append(m, <<k, v>>)

MapDelete(m, k) ==
  LET keep(e) == e[1] # k
  IN  SelectSeq(m, keep)

MapKeys(m) == { m[i][1] : i \in 1..Len(m) }

\* ------------------------------------------------------------------------
\* Constants of the library
\* ------------------------------------------------------------------------

RelationTypeAasxOrigin == "http://admin-shell.io/aasx/relationships/aasx-origin"

RelationTypeAasxSpec == "http://admin-shell.io/aasx/relationships/aas-spec"

RelationTypeAasxSupplementary == "http://admin-shell.io/aasx/relationships/aas-suppl"

RelationTypeThumbnail ==
  "http://schemas.openxmlformats.org/package/2006/relationships/metadata/thumbnail"

ErrNoOriginPart == "no origin part found"

ErrPartNotFound == "part not found"

ErrInvalidFormat == "invalid package format"

ErrPreconditionViolation == "precondition violation"

ErrPostconditionViolation == "postcondition violation"

\* The error of a traversal that meets an edge whose target part is missing.
ErrIntegrity == "part of relationship not found"

OctetStream == "application/octet-stream"

RelsContentType == "application/vnd.openxmlformats-package.relationships+xml"

ContentTypePath ==
  <<"[", "C", "o", "n", "t", "e", "n", "t", "_", "T", "y", "p", "e", "s", "]",
    ".", "x", "m", "l">>

OriginPath ==
  <<"/", "a", "a", "s", "x", "/", "a", "a", "s", "x", "-", "o", "r", "i", "g", "i", "n">>

\* A byte array is either the UTF-8 text of a well-formed XML document
\* (t = "xml"), a zip archive (t = "zip") or any other bytes (t = "raw").
RawBytes(text) == [t |-> "raw", v |-> text]

XmlBytes(name, children) == [t |-> "xml", name |-> name, children |-> children]

ZipBytes(entries) == [t |-> "zip", entries |-> entries]

\* encodeUtf8('Intentionally empty.')
OriginContent == RawBytes("Intentionally empty.")

\* new Uint8Array()
EmptyBytes == RawBytes("")

\* ------------------------------------------------------------------------
\* PackageBase: parts, relationships, originURI, nextRelID
\* ------------------------------------------------------------------------

HexDigit(d) ==
  <<"0", "1", "2", "3", "4", "5", "6", "7", "8", "9", "a", "b", "c", "d", "e", "f">>[d + 1]

\* Number.prototype.toString(16)
RECURSIVE toHex(_)
toHex(n) == IF n < 16 THEN <<HexDigit(n)>> ELSE Append(toHex(n \div 16), HexDigit(n % 16))

\* String.prototype.padStart(width, '0')
RECURSIVE padStart(_, _)
padStart(s, width) == IF Len(s) >= width THEN s ELSE padStart(<<"0">> \o s, width)

IdWidth == 8

relID(n) == <<"R">> \o padStart(toHex(n), IdWidth)

NewPackageBase == [parts |-> <<>>, relationships |-> <<>>, originURI |-> <<>>, nextRelID |-> 1]

BucketOf(pkg, normalizedSource) ==
  IF MapHas(pkg.relationships, normalizedSource)
    THEN MapGet(pkg.relationships, normalizedSource)
    ELSE <<>>

\* An addRelationshipWithID that advances the id counter.
addRelationshipWithIDCounting(pkg, sourcePath, targetPath, relType, id) ==
  [pkg EXCEPT !.relationships =
                 MapSet(@, normalizePathForMap(sourcePath),
                        Append(BucketOf(pkg, normalizePathForMap(sourcePath)),
                               [id |-> id, relType |-> relType, target |-> targetPath,
                                targetMode |-> "Internal"])),
              !.nextRelID = @ + 1]

addRelationshipWithID(pkg, sourcePath, targetPath, relType, id) ==
  LET normalizedSource == normalizePathForMap(sourcePath)
      existing == BucketOf(pkg, normalizedSource)
      rel == [id |-> id, relType |-> relType, target |-> targetPath, targetMode |-> "Internal"]
  IN  [pkg EXCEPT !.relationships = MapSet(@, normalizedSource, Append(existing, rel))]

\* An addRelationship that leaves the id counter where it is.
addRelationshipKeepingCounter(pkg, sourcePath, targetPath, relType) ==
  addRelationshipWithID(pkg, sourcePath, targetPath, relType, relID(pkg.nextRelID))

addRelationship(pkg, sourcePath, targetPath, relType) ==
  addRelationshipWithID([pkg EXCEPT !.nextRelID = @ + 1],
                        sourcePath, targetPath, relType, relID(pkg.nextRelID))

removeRelationship(pkg, sourcePath, targetPath, relType) ==
  LET normalizedSource == normalizePathForMap(sourcePath)
      normalizedTarget == normalizePathForMap(targetPath)
      old == BucketOf(pkg, normalizedSource)
      keep(rel) == ~(normalizePathForMap(rel.target) = normalizedTarget /\ rel.relType = relType)
  IN  [pkg EXCEPT !.relationships = MapSet(@, normalizedSource, SelectSeq(old, keep))]

\* A cleanup that drops the part's own bucket and leaves the relationships
\* that target the part where they are.
removeBucketOnly(pkg, uriPath) ==
  [pkg EXCEPT !.relationships = MapDelete(@, normalizePathForMap(uriPath))]

removeAllRelationshipsWithSourceOrTarget(pkg, uriPath) ==
  LET normalizedPath == normalizePathForMap(uriPath)
      remaining == MapDelete(pkg.relationships, normalizedPath)
      keep(rel) == normalizePathForMap(rel.target) # normalizedPath
      filtered == [i \in 1..Len(remaining) |-> <<remaining[i][1], SelectSeq(remaining[i][2], keep)>>]
      nonEmpty(e) == Len(e[2]) # 0
  IN  [pkg EXCEPT !.relationships = SelectSeq(filtered, nonEmpty)]

\* A lookup that compares the targets as they are written, letter case
\* included.
hasRelationshipAsWritten(pkg, sourcePath, targetPath, relType) ==
  LET rels == BucketOf(pkg, normalizePathForMap(sourcePath))
  IN  \E i \in 1..Len(rels) : rels[i].relType = relType /\ rels[i].target = targetPath

hasRelationship(pkg, sourcePath, targetPath, relType) ==
  LET normalizedSource == normalizePathForMap(sourcePath)
      normalizedTarget == normalizePathForMap(targetPath)
      rels == BucketOf(pkg, normalizedSource)
  IN  \E i \in 1..Len(rels) :
        rels[i].relType = relType /\ normalizePathForMap(rels[i].target) = normalizedTarget

getRelationshipsByType(pkg, sourcePath, relType) ==
  LET normalizedSource == normalizePathForMap(sourcePath)
      ofType(rel) == rel.relType = relType
  IN  SelectSeq(BucketOf(pkg, normalizedSource), ofType)

\* new Part(uri, contentType, content, pkg)
NewPart(uri, contentType, content) == [URI |-> uri, ContentType |-> contentType, content |-> content]

\* An initialisation that registers the origin part and relates nothing.
initializeWithoutRelationship(pkg) ==
  [pkg EXCEPT !.parts = MapSet(@, normalizeURI(asPackageUrl(OriginPath)),
                               NewPart(asPackageUrl(OriginPath), "text/plain", OriginContent)),
              !.originURI = OriginPath]

initializeNewPackage(pkg) ==
  LET originUri == asPackageUrl(OriginPath)
      origin == NewPart(originUri, "text/plain", OriginContent)
      withPart == [pkg EXCEPT !.parts = MapSet(@, normalizeURI(originUri), origin),
                              !.originURI = normalizeURI(originUri)]
  IN  addRelationship(withPart, <<>>, pathFromUri(originUri), RelationTypeAasxOrigin)

\* ------------------------------------------------------------------------
\* Contract checks (dbc)
\* ------------------------------------------------------------------------

\* env: the global override ("true", "false" or "undefined"), whether a process
\* object with an environment exists, AASX_DEBUG_CONTRACTS and NODE_ENV.
\* A flag that looks at NODE_ENV only.
enabledOutsideProduction(env) == env.nodeEnv # "production"

isDebugContractsEnabled(env) ==
  IF env.override \in {"true", "false"} THEN env.override = "true"
  ELSE IF env.hasProcess
    THEN IF env.explicit \in {"1", "true"} THEN TRUE
         ELSE IF env.explicit \in {"0", "false"} THEN FALSE
         ELSE env.nodeEnv # "production"
  ELSE TRUE

\* Require / Ensure throw exactly when this holds.
\* A Require that never raises.
RequireNeverThrows(condition, env) == FALSE

RequireThrows(condition, env) == ~condition /\ isDebugContractsEnabled(env)

EnsureThrows(condition, env) == ~condition /\ isDebugContractsEnabled(env)

\* ------------------------------------------------------------------------
\* PackageRead
\* ------------------------------------------------------------------------

Null == [null |-> TRUE]

IsNull(x) == DOMAIN x = {"null"}

\* The result of a call that may throw: err = "" when it returned val.
Ok(val) == [err |-> "", val |-> val]

Thrown(err) == [err |-> err, val |-> Null]

RECURSIVE SpecsLoop(_, _, _)
SpecsLoop(pkg, rels, result) ==
  IF rels = <<>> THEN result
  ELSE LET target == normalizePathForMap(Head(rels).target)
       IN  SpecsLoop(pkg, Tail(rels),
                     IF MapHas(pkg.parts, target)
                       THEN Append(result, MapGet(pkg.parts, target))
                       ELSE result)

\* A Specs that lists the newest spec relationship first.
SpecsNewestFirst(pkg) ==
  LET listed == SpecsLoop(pkg, getRelationshipsByType(pkg, pkg.originURI, RelationTypeAasxSpec),
                          <<>>)
  IN  [i \in 1..Len(listed) |-> listed[Len(listed) + 1 - i]]

Specs(pkg) ==
  SpecsLoop(pkg, getRelationshipsByType(pkg, pkg.originURI, RelationTypeAasxSpec), <<>>)

IsSpec(pkg, part) ==
  hasRelationship(pkg, pkg.originURI, pathFromUri(part.URI), RelationTypeAasxSpec)

RECURSIVE SupplementariesLoop(_, _, _)
SupplementariesLoop(pkg, rels, result) ==
  IF rels = <<>> THEN Ok(result)
  ELSE LET target == normalizePathForMap(Head(rels).target)
       IN  IF ~MapHas(pkg.parts, target) THEN Thrown(ErrIntegrity)
           ELSE SupplementariesLoop(pkg, Tail(rels), Append(result, MapGet(pkg.parts, target)))

SupplementariesFor(pkg, spec) ==
  SupplementariesLoop(
    pkg, getRelationshipsByType(pkg, pathFromUri(spec.URI), RelationTypeAasxSupplementary), <<>>)

RECURSIVE SupplementaryRelationshipsLoop(_, _, _)
SupplementaryRelationshipsLoop(pkg, specs, result) ==
  IF specs = <<>> THEN Ok(result)
  ELSE LET spec == Head(specs)
           supplementaries == SupplementariesFor(pkg, spec)
       IN  IF supplementaries.err # "" THEN supplementaries
           ELSE SupplementaryRelationshipsLoop(
                  pkg, Tail(specs),
                  result \o [i \in 1..Len(supplementaries.val) |->
                               [Spec |-> spec, Supplementary |-> supplementaries.val[i]]])

SupplementaryRelationships(pkg) == SupplementaryRelationshipsLoop(pkg, Specs(pkg), <<>>)

\* A lookup under the path as written, letter case kept.
FindPartAsWritten(pkg, uri) ==
  IF MapHas(pkg.parts, normalizePathKeepingCase(pathFromUri(uri)))
    THEN MapGet(pkg.parts, normalizePathKeepingCase(pathFromUri(uri)))
    ELSE Null

FindPart(pkg, uri) ==
  IF MapHas(pkg.parts, normalizeURI(uri)) THEN MapGet(pkg.parts, normalizeURI(uri)) ELSE Null

MustPart(pkg, uri) ==
  IF IsNull(FindPart(pkg, uri)) THEN Thrown(ErrPartNotFound) ELSE Ok(FindPart(pkg, uri))

Thumbnail(pkg) ==
  LET rels == getRelationshipsByType(pkg, <<>>, RelationTypeThumbnail)
      target == normalizePathForMap(rels[1].target)
  IN  IF Len(rels) = 0 THEN Ok(Null)
      ELSE IF ~MapHas(pkg.parts, target) THEN Thrown(ErrIntegrity)
      ELSE Ok(MapGet(pkg.parts, target))

\* ------------------------------------------------------------------------
\* PackageReadWrite: each operation gives the package after the call and
\* the error it threw ("" when it returned).
\* ------------------------------------------------------------------------

Returned(pkg) == [pkg |-> pkg, err |-> ""]

Threw(pkg, err) == [pkg |-> pkg, err |-> err]

\* A PutPart that registers a new Part object whether or not the path is
\* registered.
PutPartReplacing(pkg, uri, contentType, content, env) ==
  Returned([pkg EXCEPT !.parts = MapSet(@, normalizeURI(uri), NewPart(uri, contentType, content))])

PutPart(pkg, uri, contentType, content, env) ==
  LET normalized == normalizeURI(uri)
      after ==
        IF MapHas(pkg.parts, normalized)
          THEN [pkg EXCEPT !.parts =
                  MapSet(@, normalized,
                         [MapGet(pkg.parts, normalized) EXCEPT !.ContentType = contentType,
                                                                !.content = content])]
          ELSE [pkg EXCEPT !.parts = MapSet(@, normalized, NewPart(uri, contentType, content))]
  IN  IF EnsureThrows(MapHas(after.parts, normalized), env)
        THEN Threw(after, ErrPostconditionViolation)
        ELSE Returned(after)

\* A DeletePart that drops every bucket but that of the package root.
DeletePartDroppingBuckets(pkg, part, env) ==
  LET after == removeAllRelationshipsWithSourceOrTarget(
                 [pkg EXCEPT !.parts = MapDelete(@, normalizeURI(part.URI))],
                 pathFromUri(part.URI))
  IN  Returned([after EXCEPT !.relationships =
                  IF MapHas(@, <<>>) THEN << <<(<<>>), MapGet(@, <<>>)>> >> ELSE <<>>])

DeletePart(pkg, part, env) ==
  LET normalized == normalizeURI(part.URI)
      removed == [pkg EXCEPT !.parts = MapDelete(@, normalized)]
      after == removeAllRelationshipsWithSourceOrTarget(removed, pathFromUri(part.URI))
  IN  IF EnsureThrows(~MapHas(after.parts, normalized), env)
        THEN Threw(after, ErrPostconditionViolation)
        ELSE Returned(after)

MakeSpec(pkg, part) ==
  IF hasRelationship(pkg, pkg.originURI, pathFromUri(part.URI), RelationTypeAasxSpec)
    THEN Returned(pkg)
    ELSE Returned(addRelationship(pkg, pkg.originURI, pathFromUri(part.URI), RelationTypeAasxSpec))

\* An UnmakeSpec that keeps the relationships the part is the source of.
UnmakeSpecKeepingBucket(pkg, part, env) ==
  IF RequireThrows(hasRelationship(pkg, pkg.originURI, pathFromUri(part.URI),
                                   RelationTypeAasxSpec), env)
    THEN Threw(pkg, ErrPreconditionViolation)
    ELSE Returned(removeRelationship(pkg, pkg.originURI, pathFromUri(part.URI),
                                     RelationTypeAasxSpec))

UnmakeSpec(pkg, part, env) ==
  LET isSpec == hasRelationship(pkg, pkg.originURI, pathFromUri(part.URI), RelationTypeAasxSpec)
      removed == removeRelationship(pkg, pkg.originURI, pathFromUri(part.URI), RelationTypeAasxSpec)
  IN  IF RequireThrows(isSpec, env) THEN Threw(pkg, ErrPreconditionViolation)
      ELSE Returned([removed EXCEPT !.relationships = MapDelete(@, normalizeURI(part.URI))])

RelateSupplementaryToSpec(pkg, supplementary, spec, env) ==
  LET isSpec == hasRelationship(pkg, pkg.originURI, pathFromUri(spec.URI), RelationTypeAasxSpec)
  IN  IF RequireThrows(isSpec, env) THEN Threw(pkg, ErrPreconditionViolation)
      ELSE IF hasRelationship(pkg, pathFromUri(spec.URI), pathFromUri(supplementary.URI),
                              RelationTypeAasxSupplementary)
        THEN Returned(pkg)
      ELSE Returned(addRelationship(pkg, pathFromUri(spec.URI), pathFromUri(supplementary.URI),
                                    RelationTypeAasxSupplementary))

UnrelateSupplementaryFromSpec(pkg, supplementary, spec, env) ==
  LET isSpec == hasRelationship(pkg, pkg.originURI, pathFromUri(spec.URI), RelationTypeAasxSpec)
  IN  IF RequireThrows(isSpec, env) THEN Threw(pkg, ErrPreconditionViolation)
      ELSE Returned(removeRelationship(pkg, pathFromUri(spec.URI), pathFromUri(supplementary.URI),
                                       RelationTypeAasxSupplementary))

\* The loop shared by SetThumbnail and UnsetThumbnail.
RECURSIVE RemoveThumbnails(_, _)
RemoveThumbnails(pkg, rels) ==
  IF rels = <<>> THEN pkg
  ELSE RemoveThumbnails(removeRelationship(pkg, <<>>, Head(rels).target, RelationTypeThumbnail),
                        Tail(rels))

SetThumbnail(pkg, part) ==
  LET rels == getRelationshipsByType(pkg, <<>>, RelationTypeThumbnail)
  IN  Returned(addRelationship(RemoveThumbnails(pkg, rels), <<>>, pathFromUri(part.URI),
                               RelationTypeThumbnail))

UnsetThumbnail(pkg) ==
  Returned(RemoveThumbnails(pkg, getRelationshipsByType(pkg, <<>>, RelationTypeThumbnail)))

\* ------------------------------------------------------------------------
\* The archive codec
\* ------------------------------------------------------------------------

\* String.prototype.localeCompare on the model's alphabet: punctuation sorts
\* before digits, digits before letters, letters alphabetically without regard
\* to case; strings equal up to case are ordered lower case first.
CollationOrder ==
  <<"_", "-", ":", ".", "[", "]", "/", "\\",
    "0", "1", "2", "3", "4", "5", "6", "7", "8", "9",
    "a", "b", "c", "d", "e", "f", "g", "h", "i", "j", "k", "l", "m",
    "n", "o", "p", "q", "r", "s", "t", "u", "v", "w", "x", "y", "z">>

PrimaryRank(c) == CHOOSE i \in 1..Len(CollationOrder) : CollationOrder[i] = LowerChar(c)

CaseRank(c) == IF LowerChar(c) = c THEN 0 ELSE 1

Rank(level, c) == IF level = "primary" THEN PrimaryRank(c) ELSE CaseRank(c)

\* -1, 0 or 1, comparing position by position at one level of the collation.
RECURSIVE CompareBy(_, _, _)
CompareBy(level, left, right) ==
  IF left = <<>> /\ right = <<>> THEN 0
  ELSE IF left = <<>> THEN -1
  ELSE IF right = <<>> THEN 1
  ELSE IF Rank(level, Head(left)) < Rank(level, Head(right)) THEN -1
  ELSE IF Rank(level, Head(left)) > Rank(level, Head(right)) THEN 1
  ELSE CompareBy(level, Tail(left), Tail(right))

localeCompare(left, right) ==
  IF CompareBy("primary", left, right) # 0
    THEN CompareBy("primary", left, right)
    ELSE CompareBy("case", left, right)

\* Array.prototype.sort (stable) of <<key, value>> entries, comparing the
\* keys with localeCompare.
RECURSIVE InsertSorted(_, _)
InsertSorted(sorted, item) ==
  IF sorted = <<>> THEN <<item>>
  ELSE IF localeCompare(Head(sorted)[1], item[1]) > 0 THEN <<item>> \o sorted
  ELSE <<Head(sorted)>> \o InsertSorted(Tail(sorted), item)

RECURSIVE SortBy(_)
SortBy(items) ==
  IF items = <<>> THEN <<>>
  ELSE InsertSorted(SortBy(SubSeq(items, 1, Len(items) - 1)), items[Len(items)])

\* PackageRead.SpecsByContentType (it uses the sort above): the groups as
\* <<content type, members>> in the order Object.keys lists them, the order in
\* which the content types were first met.
RECURSIVE GroupLoop(_, _)
GroupLoop(specs, grouped) ==
  IF specs = <<>> THEN grouped
  ELSE LET spec == Head(specs)
           members == IF MapHas(grouped, spec.ContentType)
                        THEN MapGet(grouped, spec.ContentType) ELSE <<>>
       IN  GroupLoop(Tail(specs), MapSet(grouped, spec.ContentType, Append(members, spec)))

SortByPath(members) ==
  LET keyed == [i \in 1..Len(members) |-> <<pathFromUri(members[i].URI), members[i]>>]
      sorted == SortBy(keyed)
  IN  [i \in 1..Len(sorted) |-> sorted[i][2]]

SpecsByContentType(pkg) ==
  LET grouped == GroupLoop(Specs(pkg), <<>>)
  IN  [i \in 1..Len(grouped) |-> <<grouped[i][1], SortByPath(grouped[i][2])>>]

\* An XML element: its name and its attributes (a function on the attribute
\* names that are present).
Element(name, attributes) == [name |-> name, attributes |-> attributes]

HasAttr(attributes, n) == n \in DOMAIN attributes

\* The loop of buildContentTypesXml over parts.values(): acc holds extMap and
\* overrides.
RECURSIVE ContentTypeTables(_, _)
ContentTypeTables(parts, acc) ==
  IF parts = <<>> THEN acc
  ELSE LET part == Head(parts)[2]
           path == pathFromUri(part.URI)
           dotExt == extName(path)
           ext == toLowerCase(IF dotExt = <<>> THEN dotExt ELSE Tail(dotExt))
           hasExisting == MapHas(acc.extMap, ext) /\ MapGet(acc.extMap, ext) # ""
       IN  IF ext = <<>>
             THEN ContentTypeTables(
                    Tail(parts), [acc EXCEPT !.overrides = MapSet(@, path, part.ContentType)])
           ELSE IF hasExisting /\ MapGet(acc.extMap, ext) # part.ContentType
             THEN ContentTypeTables(
                    Tail(parts), [acc EXCEPT !.overrides = MapSet(@, path, part.ContentType)])
           ELSE IF ~hasExisting
             THEN ContentTypeTables(
                    Tail(parts), [acc EXCEPT !.extMap = MapSet(@, ext, part.ContentType)])
           ELSE ContentTypeTables(Tail(parts), acc)

buildContentTypesXml(parts) ==
  LET tables == ContentTypeTables(parts, [extMap |-> <<>>, overrides |-> <<>>])
      defaults == <<<<Tail(DotRels), RelsContentType>>>> \o SortBy(tables.extMap)
      overrideEntries == SortBy(tables.overrides)
  IN  XmlBytes("Types",
        [i \in 1..Len(defaults) |->
           Element("Default", [Extension |-> defaults[i][1], ContentType |-> defaults[i][2]])]
        \o
        [i \in 1..Len(overrideEntries) |->
           Element("Override", [PartName |-> overrideEntries[i][1],
                                ContentType |-> overrideEntries[i][2]])])

buildRelationshipsXml(relationships) ==
  XmlBytes("Relationships",
    [i \in 1..Len(relationships) |->
       LET rel == relationships[i]
       IN  Element("Relationship",
             IF rel.targetMode # "" /\ rel.targetMode # "Internal"
               THEN [Id |-> rel.id, Type |-> rel.relType, Target |-> rel.target,
                     TargetMode |-> rel.targetMode]
               ELSE [Id |-> rel.id, Type |-> rel.relType, Target |-> rel.target])])

\* files[...] = ... for every non-empty bucket, then for every part.
RECURSIVE RelsFiles(_, _)
RelsFiles(buckets, files) ==
  IF buckets = <<>> THEN files
  ELSE LET sourcePath == Head(buckets)[1]
           rels == Head(buckets)[2]
       IN  IF Len(rels) = 0 THEN RelsFiles(Tail(buckets), files)
           ELSE RelsFiles(Tail(buckets),
                          MapSet(files, trimLeadingSlash(getRelsPath(sourcePath)),
                                 buildRelationshipsXml(rels)))

RECURSIVE PartFiles(_, _)
PartFiles(parts, files) ==
  IF parts = <<>> THEN files
  ELSE LET part == Head(parts)[2]
       IN  PartFiles(Tail(parts),
                     MapSet(files, trimLeadingSlash(pathFromUri(part.URI)), part.content))

writeToBytes(pkg) ==
  LET withTypes == MapSet(<<>>, ContentTypePath, buildContentTypesXml(pkg.parts))
      withRels == RelsFiles(pkg.relationships, withTypes)
  IN  ZipBytes(PartFiles(pkg.parts, withRels))

\* parseXmlString throws on text that is not well-formed XML.
XmlParses(bytes) == bytes.t = "xml"

\* A present, non-empty attribute: character strings (Id, Target, Extension,
\* PartName) and the type strings the model keeps whole (Type, ContentType).
Truthy(attributes, n) ==
  /\ HasAttr(attributes, n)
  /\ IF n \in {"Type", "ContentType"} THEN attributes[n] # "" ELSE attributes[n] # <<>>

parseRelationshipsXml(root) ==
  LET isRel(child) ==
        /\ child.name = "Relationship"
        /\ Truthy(child.attributes, "Id")
        /\ Truthy(child.attributes, "Type")
        /\ Truthy(child.attributes, "Target")
      kept == SelectSeq(root.children, isRel)
  IN  IF root.name # "Relationships" THEN <<>>
      ELSE [i \in 1..Len(kept) |->
              [id |-> kept[i].attributes.Id,
               relType |-> kept[i].attributes.Type,
               target |-> kept[i].attributes.Target,
               targetMode |-> IF HasAttr(kept[i].attributes, "TargetMode")
                                THEN kept[i].attributes.TargetMode ELSE "Internal"]]

parseContentTypesXml(root) ==
  LET isDefault(child) ==
        /\ child.name = "Default"
        /\ Truthy(child.attributes, "Extension")
        /\ Truthy(child.attributes, "ContentType")
      isOverride(child) ==
        /\ child.name = "Override"
        /\ Truthy(child.attributes, "PartName")
        /\ Truthy(child.attributes, "ContentType")
      ds == SelectSeq(root.children, isDefault)
      os == SelectSeq(root.children, isOverride)
  IN  IF root.name # "Types" THEN [defaults |-> <<>>, overrides |-> <<>>]
      ELSE [defaults |-> [i \in 1..Len(ds) |->
                            [extension |-> ds[i].attributes.Extension,
                             contentType |-> ds[i].attributes.ContentType]],
            overrides |-> [i \in 1..Len(os) |->
                             [partName |-> os[i].attributes.PartName,
                              contentType |-> os[i].attributes.ContentType]]]

\* The first loop of openFromBytes: every entry named like a relationship
\* document is parsed and its relationships are added with their ids.
RECURSIVE AddLoaded(_, _, _)
AddLoaded(pkg, sourcePath, rels) ==
  IF rels = <<>> THEN pkg
  ELSE LET rel == Head(rels)
           targetPath == resolveRelativeURI(sourcePath, rel.target)
           added == addRelationshipWithID(pkg, sourcePath, targetPath, rel.relType, rel.id)
       IN  AddLoaded(IF rel.relType = RelationTypeAasxOrigin /\ sourcePath = <<>>
                       THEN [added EXCEPT !.originURI = normalizePathForMap(targetPath)]
                       ELSE added,
                     sourcePath, Tail(rels))

IsRelsName(name) == includes(name, RelsSlash) /\ endsWith(name, DotRels)

RECURSIVE LoadRelationships(_, _)
LoadRelationships(entries, acc) ==
  IF entries = <<>> \/ acc.err # "" THEN acc
  ELSE LET name == Head(entries)[1]
           bytes == Head(entries)[2]
       IN  IF ~IsRelsName(name) THEN LoadRelationships(Tail(entries), acc)
           ELSE IF ~XmlParses(bytes) THEN Threw(acc.pkg, "invalid xml")
           ELSE LoadRelationships(
                  Tail(entries),
                  Returned(AddLoaded(acc.pkg, getSourcePathFromRelsPath(name),
                                     parseRelationshipsXml(bytes))))

RECURSIVE DefaultTypes(_, _)
DefaultTypes(defaults, map) ==
  IF defaults = <<>> THEN map
  ELSE DefaultTypes(Tail(defaults),
                    MapSet(map, toLowerCase(Head(defaults).extension), Head(defaults).contentType))

RECURSIVE OverrideTypes(_, _)
OverrideTypes(overrides, map) ==
  IF overrides = <<>> THEN map
  ELSE OverrideTypes(Tail(overrides),
                     MapSet(map, normalizePathForMap(Head(overrides).partName),
                            Head(overrides).contentType))

\* A resolution that looks at the extension only.
ResolveByExtensionOnly(name, contentTypesMap, defaultTypes) ==
  LET dotExt == extName(name)
      ext == toLowerCase(IF dotExt = <<>> THEN dotExt ELSE Tail(dotExt))
  IN  IF MapHas(defaultTypes, ext) THEN MapGet(defaultTypes, ext) ELSE OctetStream

\* The content type openFromBytes gives the entry `name`.
ResolveContentType(name, contentTypesMap, defaultTypes) ==
  LET normalized == normalizePathForMap(ensureLeadingSlash(name))
      override == IF MapHas(contentTypesMap, normalized) THEN MapGet(contentTypesMap, normalized) ELSE ""
      dotExt == extName(name)
      ext == toLowerCase(IF dotExt = <<>> THEN dotExt ELSE Tail(dotExt))
  IN  IF override # "" THEN override
      ELSE IF MapHas(defaultTypes, ext) THEN MapGet(defaultTypes, ext)
      ELSE OctetStream

SkippedAsPart(name) ==
  name = ContentTypePath \/ includes(name, RelsSlash) \/ endsWith(name, <<"/">>)

RECURSIVE LoadParts(_, _, _, _)
LoadParts(entries, pkg, contentTypesMap, defaultTypes) ==
  IF entries = <<>> THEN pkg
  ELSE LET name == Head(entries)[1]
           partPath == ensureLeadingSlash(name)
           normalized == normalizePathForMap(partPath)
           part == NewPart(asPackageUrl(partPath),
                           ResolveContentType(name, contentTypesMap, defaultTypes),
                           Head(entries)[2])
       IN  IF SkippedAsPart(name)
             THEN LoadParts(Tail(entries), pkg, contentTypesMap, defaultTypes)
             ELSE LoadParts(Tail(entries), [pkg EXCEPT !.parts = MapSet(@, normalized, part)],
                            contentTypesMap, defaultTypes)

\* What the catch block of openFromBytes rethrows for the error `err`.
\* A catch block that wraps whatever was thrown.
RethrownWrapped(err) == ErrInvalidFormat

Rethrown(err) == IF err = ErrNoOriginPart THEN ErrNoOriginPart ELSE ErrInvalidFormat

openFromBytes(bytes) ==
  LET entries == bytes.entries
      hasTypes == MapHas(entries, ContentTypePath)
      typesBytes == MapGet(entries, ContentTypePath)
      parsed == IF hasTypes THEN parseContentTypesXml(typesBytes)
                ELSE [defaults |-> <<>>, overrides |-> <<>>]
      defaultTypes == DefaultTypes(parsed.defaults, <<>>)
      contentTypesMap == OverrideTypes(parsed.overrides, <<>>)
      loaded == LoadRelationships(entries, Returned(NewPackageBase))
  IN  IF bytes.t # "zip" THEN Threw(Null, Rethrown("invalid zip data"))
      ELSE IF hasTypes /\ ~XmlParses(typesBytes) THEN Threw(Null, Rethrown("invalid xml"))
      ELSE IF loaded.err # "" THEN Threw(Null, Rethrown("invalid xml"))
      ELSE IF loaded.pkg.originURI = <<>> THEN Threw(Null, Rethrown(ErrNoOriginPart))
      ELSE Returned(LoadParts(entries, loaded.pkg, contentTypesMap, defaultTypes))

\* ------------------------------------------------------------------------
\* The state machine: one caller working on one package
\* ------------------------------------------------------------------------

VARIABLES
  parts,          \* PackageBase.parts of the caller's package
  relationships,  \* PackageBase.relationships
  originURI,      \* PackageBase.originURI
  nextRelID,      \* PackageBase.nextRelID
  isOpen,         \* the caller holds a package
  hasSink,        \* PackageBase.sink is not null
  sinkData,       \* the bytes the sink's stream holds
  stale,          \* the Part objects the caller holds whose part it has deleted
  err,            \* what the last call threw ("" when it returned)
  calls,          \* the number of calls made so far
  env,            \* what isDebugContractsEnabled reads
  reading,        \* the PutPartFromStream call that awaits reader.read(), if any
  made,           \* the keys of the parts passed to MakeSpec, in the order of their first call
  held,           \* the Uint8Array objects the caller holds
  input,          \* the arguments of a call of a path function
  output          \* what that call returned

vars == <<parts, relationships, originURI, nextRelID, isOpen, hasSink, sinkData, stale, err,
          calls, env, reading, made, held, input, output>>

Pkg == [parts |-> parts, relationships |-> relationships, originURI |-> originURI,
        nextRelID |-> nextRelID]

SetPkg(pkg) ==
  /\ parts' = pkg.parts
  /\ relationships' = pkg.relationships
  /\ originURI' = pkg.originURI
  /\ nextRelID' = pkg.nextRelID

\* The caller makes at most MaxCalls calls, and at most MaxCallsUnchecked when
\* the contract checks are off (every call then changes the package).
MaxCalls == 5

MaxCallsUnchecked == 3

PathA == <<"/", "a", ".", "x", "m", "l">>

PathAUpper == <<"/", "A", ".", "x", "m", "l">>

PathB == <<"/", "b", ".", "p", "d", "f">>

\* The URLs the caller puts parts at: two that differ only in letter case, and
\* a third.
PutURIs == { asPackageUrl(PathA), asPackageUrl(PathAUpper), asPackageUrl(PathB) }

URIs == PutURIs \cup { asPackageUrl(OriginPath) }

ContentTypes == { "application/xml" }

Contents == { RawBytes("payload") }

Environments ==
  { [override |-> "undefined", hasProcess |-> TRUE, explicit |-> "undefined", nodeEnv |-> "test"],
    [override |-> "undefined", hasProcess |-> TRUE, explicit |-> "undefined",
     nodeEnv |-> "production"] }

\* No PutPartFromStream call is awaiting its stream.
NotReading == [active |-> FALSE]

\* A Part object as the caller holds it: the operations read its URI only.
Handle(uri) == [URI |-> uri]

Init ==
  /\ parts = <<>>
  /\ relationships = <<>>
  /\ originURI = <<>>
  /\ nextRelID = 1
  /\ isOpen = FALSE
  /\ hasSink = FALSE
  /\ sinkData = EmptyBytes
  /\ stale = {}
  /\ err = ""
  /\ calls = 0
  /\ env \in Environments
  /\ reading = NotReading
  /\ made = <<>>
  /\ held = <<>>
  /\ input = Null
  /\ output = Null

\* ---- archives handed to OpenReadWriteFromBytes -------------------------

Rel(id, relType, target) ==
  Element("Relationship", [Id |-> id, Type |-> relType, Target |-> target])

OriginEntryName == trimLeadingSlash(OriginPath)

OriginRel == Rel(<<"r", "I", "d", "1">>, RelationTypeAasxOrigin, OriginEntryName)

\* Bytes that are no zip archive.
ArchiveNotZip == RawBytes("not a zip")

\* zipSync({})
ArchiveEmpty == ZipBytes(<<>>)

\* A root relationship document that is not well-formed XML.
ArchiveBadRels ==
  ZipBytes(<< <<RootRelsName, RawBytes("<Relationships>")>>,
              <<OriginEntryName, OriginContent>> >>)

\* A content-types document that is not well-formed XML, in an archive that
\* has its origin.
ArchiveBadTypes ==
  ZipBytes(<< <<ContentTypePath, RawBytes("<Types>")>>,
              <<RootRelsName, XmlBytes("Relationships", <<OriginRel>>)>>,
              <<OriginEntryName, OriginContent>> >>)

\* Well-formed, with a root thumbnail relationship but no origin relationship.
ArchiveNoOrigin ==
  ZipBytes(<< <<RootRelsName,
                XmlBytes("Relationships",
                         <<Rel(<<"r", "I", "d", "1">>, RelationTypeThumbnail, PathB)>>)>>,
              <<trimLeadingSlash(PathB), RawBytes("payload")>> >>)

\* The only origin-typed relationship sits in a part's relationship document.
ArchiveNestedOrigin ==
  ZipBytes(<< <<trimLeadingSlash(getRelsPath(PathB)),
                XmlBytes("Relationships", <<OriginRel>>)>>,
              <<trimLeadingSlash(PathB), RawBytes("payload")>> >>)

\* A package written by another tool: no content-types document, relative
\* targets, its own ids and two thumbnail relationships.
ArchiveForeign ==
  ZipBytes(<< <<RootRelsName,
                XmlBytes("Relationships",
                         <<OriginRel,
                           Rel(<<"r", "I", "d", "2">>, RelationTypeThumbnail,
                               trimLeadingSlash(PathA)),
                           Rel(<<"r", "I", "d", "3">>, RelationTypeThumbnail, PathB)>>)>>,
              <<OriginEntryName, OriginContent>>,
              <<trimLeadingSlash(PathA), RawBytes("payload")>>,
              <<trimLeadingSlash(PathB), RawBytes("payload")>> >>)

\* The root relationship document is well-formed XML with another root element.
ArchiveOtherRoot ==
  ZipBytes(<< <<RootRelsName, XmlBytes("Types", <<OriginRel>>)>>,
              <<OriginEntryName, OriginContent>> >>)

BadArchives ==
  { ArchiveNotZip, ArchiveEmpty, ArchiveBadRels, ArchiveBadTypes, ArchiveNoOrigin,
    ArchiveNestedOrigin, ArchiveOtherRoot }

Archives == BadArchives \cup { ArchiveForeign }

\* ---- actions -----------------------------------------------------------

\* A call is made: the caller has calls left.
CallLimit == IF isDebugContractsEnabled(env) THEN MaxCalls ELSE MaxCallsUnchecked

Call == calls < CallLimit /\ calls' = calls + 1

Frame == UNCHANGED <<isOpen, hasSink, sinkData, env, reading, made, held, input, output>>

\* Packaging.CreateInStream
CreateInStream ==
  /\ ~isOpen
  /\ Call
  /\ SetPkg(initializeNewPackage(NewPackageBase))
  /\ isOpen' = TRUE
  /\ hasSink' = TRUE
  /\ sinkData' = EmptyBytes
  /\ err' = ""
  /\ UNCHANGED <<stale, env, reading, made, held, input, output>>

\* Packaging.OpenReadWriteFromBytes
OpenReadWriteFromBytes(bytes) ==
  /\ ~isOpen
  /\ Call
  /\ LET opened == openFromBytes(bytes)
     IN  /\ err' = opened.err
         /\ IF opened.err = ""
              THEN SetPkg(opened.pkg) /\ isOpen' = TRUE
              ELSE UNCHANGED <<parts, relationships, originURI, nextRelID, isOpen>>
  /\ hasSink' = FALSE
  /\ UNCHANGED <<sinkData, stale, env, reading, made, held, input, output>>

\* The Part objects the caller can pass to an operation: those of the
\* registered parts (any query hands them out) and the stale ones it kept.
Registered == { Handle(parts[i][2].URI) : i \in 1..Len(parts) }

Handles == Registered \cup stale

\* The package and the error after a call of a write operation.
Apply(outcome) ==
  /\ SetPkg(outcome.pkg)
  /\ err' = outcome.err
  /\ Frame

DoPutPart(uri, contentType, content) ==
  /\ isOpen
  /\ Call
  /\ Apply(PutPart(Pkg, uri, contentType, content, env))
  /\ UNCHANGED stale

DoDeletePart(part) ==
  /\ isOpen
  /\ Call
  /\ Apply(DeletePart(Pkg, part, env))
  /\ stale' = stale \cup { part }

DoMakeSpec(part) ==
  /\ isOpen
  /\ Call
  /\ Apply(MakeSpec(Pkg, part))
  /\ UNCHANGED stale

DoUnmakeSpec(part) ==
  /\ isOpen
  /\ Call
  /\ Apply(UnmakeSpec(Pkg, part, env))
  /\ UNCHANGED stale

DoRelateSupplementaryToSpec(supplementary, spec) ==
  /\ isOpen
  /\ Call
  /\ Apply(RelateSupplementaryToSpec(Pkg, supplementary, spec, env))
  /\ UNCHANGED stale

DoUnrelateSupplementaryFromSpec(supplementary, spec) ==
  /\ isOpen
  /\ Call
  /\ Apply(UnrelateSupplementaryFromSpec(Pkg, supplementary, spec, env))
  /\ UNCHANGED stale

DoSetThumbnail(part) ==
  /\ isOpen
  /\ Call
  /\ Apply(SetThumbnail(Pkg, part))
  /\ UNCHANGED stale

DoUnsetThumbnail ==
  /\ isOpen
  /\ Call
  /\ Apply(UnsetThumbnail(Pkg))
  /\ UNCHANGED stale

\* A Flush that hands the sink nothing.
DoFlushWithoutSink ==
  /\ isOpen
  /\ Call
  /\ err' = ""
  /\ UNCHANGED <<parts, relationships, originURI, nextRelID, isOpen, hasSink, sinkData, stale,
                 env, reading, made, held, input, output>>

\* PackageReadWrite.Flush: the sink, when there is one, is handed the bytes.
DoFlush ==
  /\ isOpen
  /\ Call
  /\ sinkData' = IF hasSink THEN writeToBytes(Pkg) ELSE sinkData
  /\ err' = ""
  /\ UNCHANGED <<parts, relationships, originURI, nextRelID, isOpen, hasSink, stale, env,
                 reading, made, held, input, output>>

\* Packaging.OpenReadWriteFromStream on the stream the package was created
\* in: the caller goes on with the package it is handed.
OpenReadWriteFromStream ==
  /\ isOpen
  /\ hasSink
  /\ Call
  /\ LET opened == openFromBytes(sinkData)
     IN  /\ err' = opened.err
         /\ IF opened.err = ""
              THEN SetPkg(opened.pkg)
              ELSE UNCHANGED <<parts, relationships, originURI, nextRelID>>
  /\ UNCHANGED <<isOpen, hasSink, sinkData, stale, env, reading, made, held, input, output>>

Next ==
  \/ CreateInStream
  \/ OpenReadWriteFromStream
  \/ \E bytes \in Archives : OpenReadWriteFromBytes(bytes)
  \/ \E uri \in PutURIs, contentType \in ContentTypes, content \in Contents :
       DoPutPart(uri, contentType, content)
  \/ \E part \in Handles : DoDeletePart(part)
  \/ \E part \in Handles : DoMakeSpec(part)
  \/ \E part \in Handles : DoUnmakeSpec(part)
  \/ \E supplementary \in Handles, spec \in Handles :
       DoRelateSupplementaryToSpec(supplementary, spec)
  \/ \E supplementary \in Handles, spec \in Handles :
       DoUnrelateSupplementaryFromSpec(supplementary, spec)
  \/ \E part \in Handles : DoSetThumbnail(part)
  \/ DoUnsetThumbnail
  \/ DoFlush

Spec == Init /\ [][Next]_vars

\* ---- building a package: PutPart / MakeSpec / Relate / SetThumbnail -----

PathInRelsNamedFolder ==
  <<"/", "x", "_", "r", "e", "l", "s", "/", "c", ".", "x", "m", "l">>

\* The URLs of SpecBuild: a part at the top level, one with another extension
\* and one in a folder whose name ends in "_rels".
BuildURIs == { asPackageUrl(PathA), asPackageUrl(PathB), asPackageUrl(PathInRelsNamedFolder) }

BuildContentTypes == { "application/xml", "application/pdf" }

NextBuild ==
  \/ CreateInStream
  \/ \E uri \in BuildURIs, contentType \in BuildContentTypes, content \in Contents :
       DoPutPart(uri, contentType, content)
  \/ \E part \in Handles : DoMakeSpec(part)
  \/ \E supplementary \in Handles, spec \in Handles :
       DoRelateSupplementaryToSpec(supplementary, spec)
  \/ \E part \in Handles : DoSetThumbnail(part)
  \/ DoFlush

SpecBuild == Init /\ [][NextBuild]_vars

\* ------------------------------------------------------------------------
\* Properties
\* ------------------------------------------------------------------------

PkgNext == [parts |-> parts', relationships |-> relationships', originURI |-> originURI',
            nextRelID |-> nextRelID']

ChecksOn == isDebugContractsEnabled(env)

\* A logical part: its path and its content type.
Logical(part) == [path |-> pathFromUri(part.URI), contentType |-> part.ContentType]

LogicalSpecs(pkg) == [i \in 1..Len(Specs(pkg)) |-> Logical(Specs(pkg)[i])]

LogicalSupplementaryRelationships(pkg) ==
  LET r == SupplementaryRelationships(pkg)
  IN  IF r.err # "" THEN <<r.err>>
      ELSE [i \in 1..Len(r.val) |->
              <<Logical(r.val[i].Spec), Logical(r.val[i].Supplementary)>>]

LogicalThumbnail(pkg) ==
  LET r == Thumbnail(pkg)
  IN  IF r.err # "" THEN <<r.err>>
      ELSE IF IsNull(r.val) THEN <<>>
      ELSE <<Logical(r.val)>>

\* Flush, then open the bytes it returned.
Reopened(pkg) == openFromBytes(writeToBytes(pkg))

\* C1: in SpecBuild (a fresh package and PutPart, MakeSpec,
\* RelateSupplementaryToSpec, SetThumbnail only), flushing the package and
\* opening the bytes gives a package whose Specs(), SupplementaryRelationships()
\* and Thumbnail() list the same logical parts, in the same order, as the
\* package that was flushed.
C1_RoundTrip ==
  isOpen =>
    /\ Reopened(Pkg).err = ""
    /\ LogicalSpecs(Reopened(Pkg).pkg) = LogicalSpecs(Pkg)
    /\ LogicalSupplementaryRelationships(Reopened(Pkg).pkg) = LogicalSupplementaryRelationships(Pkg)
    /\ LogicalThumbnail(Reopened(Pkg).pkg) = LogicalThumbnail(Pkg)

KeyOf(part) == normalizePathForMap(pathFromUri(part.URI))

\* Some relationship of pkg has the part keyed key as its source or target.
RelatesTo(pkg, key) ==
  \E i \in 1..Len(pkg.relationships) :
    \E j \in 1..Len(pkg.relationships[i][2]) :
      \/ pkg.relationships[i][1] = key
      \/ normalizePathForMap(pkg.relationships[i][2][j].target) = key

\* Specs() and SupplementaryRelationships() of pkg mention no part keyed key.
NotListed(pkg, key) ==
  /\ \A i \in 1..Len(Specs(pkg)) : KeyOf(Specs(pkg)[i]) # key
  /\ LET pairs == SupplementaryRelationships(pkg)
     IN  pairs.err = "" =>
           \A i \in 1..Len(pairs.val) :
             KeyOf(pairs.val[i].Spec) # key /\ KeyOf(pairs.val[i].Supplementary) # key

CleanedUp(pkg, key) ==
  /\ ~MapHas(pkg.parts, key)
  /\ ~RelatesTo(pkg, key)
  /\ NotListed(pkg, key)
  /\ LET reopened == Reopened(pkg)
     IN  reopened.err = "" =>
           /\ ~MapHas(reopened.pkg.parts, key)
           /\ ~RelatesTo(reopened.pkg, key)
           /\ NotListed(reopened.pkg, key)

\* C2: when DeletePart(p) returns, p is not registered and no relationship has
\* p as its source or its target; Specs() excludes p and
\* SupplementaryRelationships() has no pair that mentions p, on the live
\* package and on the package opened from its flushed bytes.
C2_StrictCleanup ==
  [][\A part \in Handles :
       stale' = stale \cup { part } /\ DoDeletePart(part) => CleanedUp(PkgNext, KeyOf(part))]_vars

\* C2: a spec with at least one supplementary is there to be deleted.
C2_Witness ==
  /\ isOpen
  /\ calls < CallLimit
  /\ \E part \in Registered :
       /\ KeyOf(part) # normalizePathForMap(originURI)
       /\ IsSpec(Pkg, part)
       /\ SupplementariesFor(Pkg, part).err = ""
       /\ SupplementariesFor(Pkg, part).val # <<>>
       /\ KeyOf(SupplementariesFor(Pkg, part).val[1]) # KeyOf(part)

OriginEdges(pkg) == getRelationshipsByType(pkg, <<>>, RelationTypeAasxOrigin)

\* C3: every open package has exactly one origin-typed relationship from the
\* package root, its target is a registered part, and the flushed bytes
\* open without missing-origin.
C3_OneOrigin ==
  isOpen =>
    /\ Len(OriginEdges(Pkg)) = 1
    /\ MapHas(parts, normalizePathForMap(OriginEdges(Pkg)[1].target))
    /\ Reopened(Pkg).err # ErrNoOriginPart

\* C4: the target of every relationship of an open package is a registered
\* part.
C4_TargetsRegistered ==
  isOpen =>
    \A i \in 1..Len(relationships) :
      \A j \in 1..Len(relationships[i][2]) :
        MapHas(parts, normalizePathForMap(relationships[i][2][j].target))

ThumbnailEdges(pkg) == getRelationshipsByType(pkg, <<>>, RelationTypeThumbnail)

\* C5: when SetThumbnail(part) returns, the package root has exactly one
\* thumbnail-typed relationship, its target is the part that was passed, and
\* Thumbnail() returns that part.
C5_OneThumbnail ==
  [][\A part \in Handles :
       DoSetThumbnail(part) =>
         /\ Len(ThumbnailEdges(PkgNext)) = 1
         /\ normalizePathForMap(ThumbnailEdges(PkgNext)[1].target) = KeyOf(part)
         /\ Thumbnail(PkgNext).err = ""
         /\ ~IsNull(Thumbnail(PkgNext).val)
         /\ KeyOf(Thumbnail(PkgNext).val) = KeyOf(part)]_vars

\* No bucket of pkg holds two relationships of one type whose targets have
\* the same canonical form.
NoDuplicateTriples(pkg) ==
  \A b \in 1..Len(pkg.relationships) :
    \A i, j \in 1..Len(pkg.relationships[b][2]) :
      LET left == pkg.relationships[b][2][i]
          right == pkg.relationships[b][2][j]
      IN  i # j =>
            ~(/\ left.relType = right.relType
              /\ normalizePathForMap(left.target) = normalizePathForMap(right.target))

\* The relationship from -> to of the given type, by canonical form.
Edge(pkg, from, to, relType) ==
  \E b \in 1..Len(pkg.relationships) :
    /\ pkg.relationships[b][1] = normalizePathForMap(from)
    /\ \E i \in 1..Len(pkg.relationships[b][2]) :
         /\ pkg.relationships[b][2][i].relType = relType
         /\ normalizePathForMap(pkg.relationships[b][2][i].target) = normalizePathForMap(to)

\* C6: MakeSpec on a part that is a spec, and RelateSupplementaryToSpec on a
\* pair that is related, leave the relationships and the id counter as they
\* were, also when the part is named by a URI of another letter case; no
\* bucket ever holds the same (target, type) twice.
C6_IdempotentAdds ==
  [][/\ \/ UNCHANGED <<relationships, nextRelID>>
        \/ /\ \A part \in Handles :
                ~(/\ Edge(Pkg, originURI, pathFromUri(part.URI), RelationTypeAasxSpec)
                  /\ DoMakeSpec(part))
           /\ \A supplementary \in Handles, spec \in Handles :
                ~(/\ Edge(Pkg, pathFromUri(spec.URI), pathFromUri(supplementary.URI),
                          RelationTypeAasxSupplementary)
                  /\ DoRelateSupplementaryToSpec(supplementary, spec))
     /\ NoDuplicateTriples(PkgNext)]_vars

\* C6: a part is a spec, the caller holds a second handle that names it by a
\* URI of another letter case, and a call is left.
C6_Witness ==
  /\ isOpen
  /\ calls < CallLimit
  /\ \E part \in Handles, other \in Handles :
       /\ pathFromUri(part.URI) # pathFromUri(other.URI)
       /\ KeyOf(part) = KeyOf(other)
       /\ Edge(Pkg, originURI, pathFromUri(part.URI), RelationTypeAasxSpec)
       /\ Edge(Pkg, originURI, pathFromUri(other.URI), RelationTypeAasxSpec)

\* C7: with the contract checks on, the source of every supplementary-typed
\* relationship is the target of a spec relationship of the origin.
C7_SupplementarySourceIsSpec ==
  isOpen /\ ChecksOn =>
    \A b \in 1..Len(relationships) :
      \A i \in 1..Len(relationships[b][2]) :
        relationships[b][2][i].relType = RelationTypeAasxSupplementary
          => Edge(Pkg, originURI, relationships[b][1], RelationTypeAasxSpec)

\* C8: with the contract checks on, no target of a supplementary-typed
\* relationship is the target of a spec relationship of the origin.
C8_SupplementaryTargetIsNoSpec ==
  isOpen /\ ChecksOn =>
    \A b \in 1..Len(relationships) :
      \A i \in 1..Len(relationships[b][2]) :
        relationships[b][2][i].relType = RelationTypeAasxSupplementary
          => ~Edge(Pkg, originURI, relationships[b][2][i].target, RelationTypeAasxSpec)

\* What an archive is, read off its entries.
ReadableZip(bytes) == bytes.t = "zip"

MalformedXml(bytes) ==
  \E i \in 1..Len(bytes.entries) :
    /\ bytes.entries[i][1] = ContentTypePath \/ IsRelsName(bytes.entries[i][1])
    /\ bytes.entries[i][2].t # "xml"

HasRootOrigin(bytes) ==
  \E i \in 1..Len(bytes.entries) :
    /\ trimLeadingSlash(bytes.entries[i][1]) = RootRelsName
    /\ bytes.entries[i][2].t = "xml"
    /\ bytes.entries[i][2].name = "Relationships"
    /\ \E c \in 1..Len(bytes.entries[i][2].children) :
         LET child == bytes.entries[i][2].children[c]
         IN  /\ child.name = "Relationship"
             /\ Truthy(child.attributes, "Id")
             /\ Truthy(child.attributes, "Target")
             /\ HasAttr(child.attributes, "Type")
             /\ child.attributes.Type = RelationTypeAasxOrigin

ExpectedOutcome(bytes) ==
  IF ~ReadableZip(bytes) THEN ErrInvalidFormat
  ELSE IF MalformedXml(bytes) THEN ErrInvalidFormat
  ELSE IF ~HasRootOrigin(bytes) THEN ErrNoOriginPart
  ELSE ""

\* The open attempt on bytes ended as the archive says, and handed out either
\* the whole package or none.
EndedAsExpected(bytes) ==
  /\ err' = ExpectedOutcome(bytes)
  /\ err' \in {"", ErrInvalidFormat, ErrNoOriginPart}
  /\ err' = "" =>
       /\ PkgNext = openFromBytes(bytes).pkg
       /\ Len(OriginEdges(PkgNext)) >= 1
       /\ originURI' # <<>>
  /\ err' # "" =>
       /\ IsNull(openFromBytes(bytes).pkg)
       /\ UNCHANGED <<parts, relationships, originURI, nextRelID, isOpen>>

\* C9: opening bytes that are no readable zip archive, or whose content-types
\* or relationship XML is malformed, fails with invalid-format; opening a
\* readable, well-formed archive without an origin relationship of the root
\* fails with missing-origin; every other open returns the package, and a
\* failed open returns none.
C9_OpenOutcomes ==
  [][/\ \A bytes \in Archives : OpenReadWriteFromBytes(bytes) => EndedAsExpected(bytes)
     /\ OpenReadWriteFromStream => EndedAsExpected(sinkData)]_vars

\* C9: an open has ended with missing-origin and there is no package.
C9_Witness == ~isOpen /\ err = ErrNoOriginPart /\ parts = <<>> /\ relationships = <<>>

Rejected ==
  /\ err' = ErrPreconditionViolation
  /\ UNCHANGED <<parts, relationships, originURI, nextRelID>>

\* The step is a rejected call, or it is none of the three operations called
\* with a part that is no spec.
RejectsNonSpec ==
  \/ Rejected
  \/ \A spec \in Handles :
       ~Edge(Pkg, originURI, pathFromUri(spec.URI), RelationTypeAasxSpec) =>
         /\ ~DoUnmakeSpec(spec)
         /\ \A supplementary \in Handles :
              /\ ~DoRelateSupplementaryToSpec(supplementary, spec)
              /\ ~DoUnrelateSupplementaryFromSpec(supplementary, spec)

PathBUpper == <<"/", "B", ".", "x", "m", "l">>

\* The URLs of SpecGroup: two paths whose first letters differ in case.
GroupURIs == { asPackageUrl(PathA), asPackageUrl(PathBUpper) }

NextGroup ==
  \/ CreateInStream
  \/ \E uri \in GroupURIs, contentType \in BuildContentTypes, content \in Contents :
       DoPutPart(uri, contentType, content)
  \/ \E part \in Handles : DoMakeSpec(part)
  \/ \E part \in Handles : DoUnmakeSpec(part)

SpecGroup == Init /\ [][NextGroup]_vars

\* The characters of the model in the order of their UTF-16 code units.
CodeUnitOrder ==
  <<"-", ".", "/", "0", "1", "2", "3", "4", "5", "6", "7", "8", "9", ":",
    "A", "B", "C", "X", "[", "\\", "]", "_",
    "a", "b", "c", "d", "e", "f", "g", "h", "i", "j", "k", "l", "m",
    "n", "o", "p", "q", "r", "s", "t", "u", "v", "w", "x", "y", "z">>

CodeUnit(c) == CHOOSE i \in 1..Len(CodeUnitOrder) : CodeUnitOrder[i] = c

\* left is before right, or equal to it, comparing code unit by code unit.
RECURSIVE OrdinalLeq(_, _)
OrdinalLeq(left, right) ==
  IF left = <<>> THEN TRUE
  ELSE IF right = <<>> THEN FALSE
  ELSE IF CodeUnit(Head(left)) < CodeUnit(Head(right)) THEN TRUE
  ELSE IF CodeUnit(Head(left)) > CodeUnit(Head(right)) THEN FALSE
  ELSE OrdinalLeq(Tail(left), Tail(right))

\* C11: SpecsByContentType() has exactly one group for each content type that
\* occurs among Specs(), every spec is in the group of its content type and
\* in no other, and the members of every group are in ascending order of
\* path, comparing code unit by code unit.
C11_GroupingOrder ==
  isOpen =>
    LET groups == SpecsByContentType(Pkg)
        specs == Specs(Pkg)
    IN  /\ { groups[g][1] : g \in 1..Len(groups) } = { specs[i].ContentType : i \in 1..Len(specs) }
        /\ \A g, h \in 1..Len(groups) : groups[g][1] = groups[h][1] => g = h
        /\ \A g \in 1..Len(groups) :
             /\ { groups[g][2][m] : m \in 1..Len(groups[g][2]) }
                  = { specs[i] : i \in { j \in 1..Len(specs) : specs[j].ContentType = groups[g][1] } }
             /\ \A m, n \in 1..Len(groups[g][2]) :
                  m < n => OrdinalLeq(pathFromUri(groups[g][2][m].URI),
                                      pathFromUri(groups[g][2][n].URI))

\* All relationships of pkg, bucket after bucket.
RECURSIVE AllRelationships(_)
AllRelationships(buckets) ==
  IF buckets = <<>> THEN <<>> ELSE Head(buckets)[2] \o AllRelationships(Tail(buckets))

\* C12: the package CreateInStream returns has exactly the origin part and
\* exactly one relationship, the origin relationship of the package root that
\* targets it; its Specs() is empty and its Thumbnail() is empty.
C12_FreshPackage ==
  [][CreateInStream =>
       /\ Len(parts') = 1
       /\ pathFromUri(parts'[1][2].URI) = OriginPath
       /\ Len(AllRelationships(relationships')) = 1
       /\ Len(OriginEdges(PkgNext)) = 1
       /\ normalizePathForMap(OriginEdges(PkgNext)[1].target) = parts'[1][1]
       /\ Specs(PkgNext) = <<>>
       /\ Thumbnail(PkgNext).err = ""
       /\ IsNull(Thumbnail(PkgNext).val)]_vars

\* C12: a package has just been created.
C12_Witness == isOpen /\ hasSink /\ calls = 1 /\ Len(parts) = 1 /\ nextRelID = 2

\* ---- archives that declare parts they do not hold -------------------------

\* Two thumbnail relationships of the root: the first to a part of the
\* archive, the second to a part the archive does not hold.
ArchiveDanglingThumbnail ==
  ZipBytes(<< <<RootRelsName,
                XmlBytes("Relationships",
                         <<OriginRel,
                           Rel(<<"r", "I", "d", "2">>, RelationTypeThumbnail, PathA),
                           Rel(<<"r", "I", "d", "3">>, RelationTypeThumbnail, PathB)>>)>>,
              <<OriginEntryName, OriginContent>>,
              <<trimLeadingSlash(PathA), RawBytes("payload")>> >>)

\* A spec relationship of the origin to a part the archive does not hold.
ArchiveDanglingSpec ==
  ZipBytes(<< <<RootRelsName, XmlBytes("Relationships", <<OriginRel>>)>>,
              <<trimLeadingSlash(getRelsPath(OriginPath)),
                XmlBytes("Relationships",
                         <<Rel(<<"r", "I", "d", "1">>, RelationTypeAasxSpec, PathA)>>)>>,
              <<OriginEntryName, OriginContent>>,
              <<trimLeadingSlash(PathB), RawBytes("payload")>> >>)

\* A spec with a supplementary relationship to a part the archive does not
\* hold, and one thumbnail relationship to such a part.
ArchiveDanglingSupplementary ==
  ZipBytes(<< <<RootRelsName,
                XmlBytes("Relationships",
                         <<OriginRel,
                           Rel(<<"r", "I", "d", "2">>, RelationTypeThumbnail, PathB)>>)>>,
              <<trimLeadingSlash(getRelsPath(OriginPath)),
                XmlBytes("Relationships",
                         <<Rel(<<"r", "I", "d", "1">>, RelationTypeAasxSpec, PathA)>>)>>,
              <<trimLeadingSlash(getRelsPath(PathA)),
                XmlBytes("Relationships",
                         <<Rel(<<"r", "I", "d", "1">>, RelationTypeAasxSupplementary, PathB)>>)>>,
              <<OriginEntryName, OriginContent>>,
              <<trimLeadingSlash(PathA), RawBytes("payload")>> >>)

CorruptArchives ==
  { ArchiveDanglingThumbnail, ArchiveDanglingSpec, ArchiveDanglingSupplementary }

NextCorrupt ==
  \/ \E bytes \in CorruptArchives : OpenReadWriteFromBytes(bytes)
  \/ \E uri \in PutURIs, contentType \in ContentTypes, content \in Contents :
       DoPutPart(uri, contentType, content)
  \/ \E part \in Handles : DoDeletePart(part)
  \/ \E part \in Handles : DoMakeSpec(part)
  \/ \E supplementary \in Handles, spec \in Handles :
       DoRelateSupplementaryToSpec(supplementary, spec)
  \/ \E part \in Handles : DoSetThumbnail(part)
  \/ DoUnsetThumbnail

SpecCorrupt == Init /\ [][NextCorrupt]_vars

\* Some relationship of the given type in the bucket of source targets a
\* path that is not registered.
Dangling(pkg, source, relType) ==
  \E b \in 1..Len(pkg.relationships) :
    /\ pkg.relationships[b][1] = normalizePathForMap(source)
    /\ \E i \in 1..Len(pkg.relationships[b][2]) :
         /\ pkg.relationships[b][2][i].relType = relType
         /\ ~MapHas(pkg.parts, normalizePathForMap(pkg.relationships[b][2][i].target))

\* C13: SupplementariesFor(spec) fails with an integrity error whenever a
\* supplementary relationship of spec targets a path that is not registered,
\* and so does SupplementaryRelationships() when spec is listed by Specs();
\* Thumbnail() fails with an integrity error whenever a thumbnail relationship
\* of the root targets a path that is not registered, and is empty only when
\* the root has no thumbnail relationship.
C13_IntegrityErrors ==
  isOpen =>
    /\ \A spec \in Handles :
         Dangling(Pkg, pathFromUri(spec.URI), RelationTypeAasxSupplementary)
           => SupplementariesFor(Pkg, spec).err = ErrIntegrity
    /\ \A i \in 1..Len(Specs(Pkg)) :
         Dangling(Pkg, pathFromUri(Specs(Pkg)[i].URI), RelationTypeAasxSupplementary)
           => SupplementaryRelationships(Pkg).err = ErrIntegrity
    /\ Dangling(Pkg, <<>>, RelationTypeThumbnail) => Thumbnail(Pkg).err = ErrIntegrity
    /\ Thumbnail(Pkg).err = "" /\ IsNull(Thumbnail(Pkg).val) => ThumbnailEdges(Pkg) = <<>>

\* PackageRead.Specs as a call: it has no throw statement.
SpecsOutcome(pkg) == Ok(Specs(pkg))

\* C14: Specs() ends in an integrity error whenever a spec relationship of the
\* origin targets a path that is not registered.
C14_SpecsChecksIntegrity ==
  isOpen =>
    (Dangling(Pkg, originURI, RelationTypeAasxSpec) => SpecsOutcome(Pkg).err = ErrIntegrity)

\* ---- putting parts --------------------------------------------------------

PutContents == { RawBytes("payload"), RawBytes("other") }

\* SpecPut: one path under two letter cases, two content types, two contents.
NextPut ==
  \/ CreateInStream
  \/ \E uri \in { asPackageUrl(PathA), asPackageUrl(PathAUpper) },
        contentType \in BuildContentTypes, content \in PutContents :
       DoPutPart(uri, contentType, content)
  \/ \E part \in Handles : DoMakeSpec(part)
  \/ \E supplementary \in Handles, spec \in Handles :
       DoRelateSupplementaryToSpec(supplementary, spec)
  \/ \E part \in Handles : DoSetThumbnail(part)

SpecPut == Init /\ [][NextPut]_vars

\* What PutPart(uri, contentType, content) has to leave behind.
PutEffect(uri, contentType, content) ==
  LET key == normalizePathForMap(pathFromUri(uri))
  IN  /\ err' = ""
      /\ UNCHANGED <<relationships, nextRelID, originURI>>
      /\ IF \E i \in 1..Len(parts) : parts[i][1] = key
           THEN /\ Len(parts') = Len(parts)
                /\ \A i \in 1..Len(parts) :
                     IF parts[i][1] = key
                       THEN /\ parts'[i][1] = key
                            /\ parts'[i][2].URI = parts[i][2].URI
                            /\ parts'[i][2].ContentType = contentType
                            /\ parts'[i][2].content = content
                       ELSE parts'[i] = parts[i]
           ELSE parts' = Append(parts, <<key, [URI |-> uri, ContentType |-> contentType,
                                               content |-> content]>>)

Canonical(key) ==
  /\ key # <<>>
  /\ Head(key) = "/"
  /\ \A i \in 1..Len(key) : LowerChar(key[i]) = key[i]
  /\ \A i \in 1..Len(split(key)) : split(key)[i] \notin { <<".">>, <<".", ".">> }

\* C16: every key of the registry, and every key of the relationship map
\* other than the empty key of the package root, is canonical; no two keys
\* differ only in letter case; handles whose paths differ only in letter case
\* have the same key.
C16_CanonicalKeys ==
  /\ \A i \in 1..Len(parts) : Canonical(parts[i][1])
  /\ \A i \in 1..Len(relationships) :
       relationships[i][1] = <<>> \/ Canonical(relationships[i][1])
  /\ \A i, j \in 1..Len(parts) :
       toLowerCase(parts[i][1]) = toLowerCase(parts[j][1]) => i = j
  /\ \A i, j \in 1..Len(relationships) :
       toLowerCase(relationships[i][1]) = toLowerCase(relationships[j][1]) => i = j
  /\ \A part \in Handles, other \in Handles :
       toLowerCase(pathFromUri(part.URI)) = toLowerCase(pathFromUri(other.URI))
         => KeyOf(part) = KeyOf(other)

\* C16: a part put under a URI with an upper-case letter is registered and
\* has a relationship bucket of its own.
C16_Witness ==
  \E i \in 1..Len(parts) :
    /\ pathFromUri(parts[i][2].URI) # parts[i][1]
    /\ \E b \in 1..Len(relationships) :
         relationships[b][1] = parts[i][1] /\ relationships[b][2] # <<>>

\* ---- lookup ---------------------------------------------------------------

\* PackageRead.FindPart: a part or null is returned, nothing is thrown.
DoFindPart(uri) ==
  /\ isOpen
  /\ Call
  /\ err' = ""
  /\ UNCHANGED <<parts, relationships, originURI, nextRelID, stale>>
  /\ Frame

\* PackageRead.MustPart: a part is returned or part-not-found is thrown.
DoMustPart(uri) ==
  /\ isOpen
  /\ Call
  /\ err' = MustPart(Pkg, uri).err
  /\ UNCHANGED <<parts, relationships, originURI, nextRelID, stale>>
  /\ Frame

\* SpecLookup: parts are put and deleted, and looked up under both letter
\* cases.
NextLookup ==
  \/ CreateInStream
  \/ \E uri \in PutURIs, contentType \in ContentTypes, content \in Contents :
       DoPutPart(uri, contentType, content)
  \/ \E part \in Handles : DoDeletePart(part)
  \/ \E uri \in URIs : DoFindPart(uri)
  \/ \E uri \in URIs : DoMustPart(uri)

SpecLookup == Init /\ [][NextLookup]_vars

\* What the two lookups return for uri in the current package.
LookupAnswers(uri) ==
  LET key == normalizePathForMap(pathFromUri(uri))
      hits == { i \in 1..Len(parts) : parts[i][1] = key }
      found == FindPart(Pkg, uri)
      must == MustPart(Pkg, uri)
  IN  /\ IF hits = {} THEN IsNull(found) ELSE \E i \in hits : found = parts[i][2]
      /\ must.err = ErrPartNotFound <=> IsNull(found)
      /\ ~IsNull(found) => must.err = "" /\ must.val = found

\* C17: FindPart(uri) returns the part registered under the canonical form of
\* uri, or null, raises nothing and changes nothing of the package;
\* MustPart(uri) fails with part-not-found exactly when FindPart(uri) returns
\* null, returns the part FindPart returns otherwise, and changes nothing.
C17_Lookup ==
  [][\A uri \in URIs :
       /\ DoFindPart(uri) \/ DoMustPart(uri) =>
            /\ UNCHANGED <<parts, relationships, originURI, nextRelID>>
            /\ LookupAnswers(uri)
       /\ DoFindPart(uri) => err' = ""
       /\ DoMustPart(uri) =>
            /\ err' \in { "", ErrPartNotFound }
            /\ err' = ErrPartNotFound <=> IsNull(FindPart(Pkg, uri))]_vars

\* C17: MustPart has missed in a package that holds a part put under an
\* upper-case URI, which both spellings find.
C17_Witness ==
  /\ err = ErrPartNotFound
  /\ \E i \in 1..Len(parts) :
       /\ pathFromUri(parts[i][2].URI) # parts[i][1]
       /\ FindPart(Pkg, asPackageUrl(PathA)) = parts[i][2]
       /\ FindPart(Pkg, asPackageUrl(PathAUpper)) = parts[i][2]

\* ---- flush ----------------------------------------------------------------

\* C18: a Flush leaves the parts, the relationships, the origin path and the
\* id counter as they were and raises nothing; with a sink, the sink holds
\* the encoding of the package as it is, an archive with the bytes of every
\* registered part under its path; without a sink nothing is written.
C18_FlushKeepsState ==
  [][DoFlush =>
       /\ UNCHANGED <<parts, relationships, originURI, nextRelID, isOpen, hasSink>>
       /\ err' = ""
       /\ IF hasSink
            THEN /\ sinkData' = writeToBytes(Pkg)
                 /\ sinkData' = writeToBytes(PkgNext)
                 /\ sinkData'.t = "zip"
                 /\ \A i \in 1..Len(parts) :
                      \E e \in 1..Len(sinkData'.entries) :
                        /\ sinkData'.entries[e][1]
                             = trimLeadingSlash(pathFromUri(parts[i][2].URI))
                        /\ sinkData'.entries[e][2] = parts[i][2].content
            ELSE sinkData' = sinkData]_vars

\* C18: the sink holds the encoding of a package with a part put by the
\* caller, flushed after the put.
C18_Witness ==
  /\ isOpen
  /\ hasSink
  /\ Len(parts) >= 2
  /\ sinkData = writeToBytes(Pkg)

\* ---- contract checks ------------------------------------------------------

\* What isDebugContractsEnabled can find: the global override is a boolean or
\* not set; there is a process environment or none; AASX_DEBUG_CONTRACTS is
\* one of the four values read, another value, or not set; NODE_ENV is
\* production, something else, or not set.
AllEnvironments ==
  { [override |-> o, hasProcess |-> TRUE, explicit |-> e, nodeEnv |-> n] :
      o \in { "true", "false", "undefined" },
      e \in { "1", "true", "0", "false", "yes", "undefined" },
      n \in { "production", "test", "undefined" } }
  \cup
  { [override |-> o, hasProcess |-> FALSE, explicit |-> "undefined", nodeEnv |-> "undefined"] :
      o \in { "true", "false", "undefined" } }

InitContracts ==
  /\ parts = <<>>
  /\ relationships = <<>>
  /\ originURI = <<>>
  /\ nextRelID = 1
  /\ isOpen = FALSE
  /\ hasSink = FALSE
  /\ sinkData = EmptyBytes
  /\ stale = {}
  /\ err = ""
  /\ calls = 0
  /\ env \in AllEnvironments
  /\ reading = NotReading
  /\ made = <<>>
  /\ held = <<>>
  /\ input = Null
  /\ output = Null

\* Require(condition, message)
DoRequire(condition) ==
  /\ Call
  /\ err' = IF RequireThrows(condition, env) THEN ErrPreconditionViolation ELSE ""
  /\ UNCHANGED <<parts, relationships, originURI, nextRelID, stale>>
  /\ Frame

\* Ensure(condition, message)
DoEnsure(condition) ==
  /\ Call
  /\ err' = IF EnsureThrows(condition, env) THEN ErrPostconditionViolation ELSE ""
  /\ UNCHANGED <<parts, relationships, originURI, nextRelID, stale>>
  /\ Frame

NextContracts ==
  \/ \E condition \in BOOLEAN : DoRequire(condition)
  \/ \E condition \in BOOLEAN : DoEnsure(condition)

SpecContracts == InitContracts /\ [][NextContracts]_vars

\* The debug flag as the rule states it.
FlagActive ==
  CASE env.override = "true" -> TRUE
    [] env.override = "false" -> FALSE
    [] OTHER ->
         CASE env.explicit \in { "1", "true" } -> TRUE
           [] env.explicit \in { "0", "false" } -> FALSE
           [] OTHER -> env.nodeEnv # "production"

\* C19: Require(c, m) raises, with the precondition prefix, exactly when c is
\* false and the debug flag is active, and Ensure(c, m) raises, with the
\* postcondition prefix, exactly when c is false and the flag is active; the
\* flag is the global override when it is a boolean, else the environment
\* toggle when it is 1, true, 0 or false, else on unless NODE_ENV is
\* production; with c true neither raises.
C19_ContractChecks ==
  [][\A c \in BOOLEAN :
       /\ DoRequire(c) =>
            /\ err' \in { "", ErrPreconditionViolation }
            /\ err' = ErrPreconditionViolation <=> (~c /\ FlagActive)
       /\ DoEnsure(c) =>
            /\ err' \in { "", ErrPostconditionViolation }
            /\ err' = ErrPostconditionViolation <=> (~c /\ FlagActive)]_vars

\* C19: Ensure has raised in production with the environment toggle off,
\* under the global override.
C19_Witness ==
  /\ err = ErrPostconditionViolation
  /\ env.override = "true"
  /\ env.explicit = "0"
  /\ env.nodeEnv = "production"

\* ---- relationship ids of loaded packages ----------------------------------

\* Two relationships of one bucket have the same id.
SharedId(rels) ==
  \E i, j \in 1..Len(rels) : i # j /\ rels[i].id = rels[j].id

\* C20: the id counter of a package opened from bytes is 1 whatever ids the
\* archive holds, relationships written by this library included.
C20_LoadedCounterStartsAtOne ==
  [][(OpenReadWriteFromStream \/ \E bytes \in Archives : OpenReadWriteFromBytes(bytes))
       /\ err' = ""
       => /\ nextRelID' = 1
          /\ Len(AllRelationships(relationships')) >= 1]_vars

\* C20: after a package written by the library was opened again and a
\* relationship was added, one bucket holds two relationships with the same
\* id, and the relationship document written for it has two Relationship
\* elements with the same Id.
C20_Witness ==
  /\ isOpen
  /\ hasSink
  /\ nextRelID = 2
  /\ \E b \in 1..Len(relationships) : SharedId(relationships[b][2])
  /\ LET files == writeToBytes(Pkg).entries
     IN  \E f \in 1..Len(files) :
           /\ files[f][2].t = "xml"
           /\ files[f][2].name = "Relationships"
           /\ \E i, j \in 1..Len(files[f][2].children) :
                /\ i # j
                /\ files[f][2].children[i].attributes.Id
                     = files[f][2].children[j].attributes.Id

\* ---- relationship ids of created packages ---------------------------------

MaxRelID == 17

\* A call on a created package while the id counter is within MaxRelID; the
\* number of calls is not limited.
CallWhileIdsLeft(outcome, dropped) ==
  /\ isOpen
  /\ nextRelID <= MaxRelID
  /\ Apply(outcome)
  /\ stale' = stale \cup dropped
  /\ UNCHANGED calls

\* The Part object of the part the caller puts.
PutHandles == Registered \cap { Handle(asPackageUrl(PathA)) }

\* SpecIds: a created package that is never opened from bytes; the caller
\* puts one part and passes it to the operations.
NextIds ==
  \/ CreateInStream
  \/ \E content \in Contents :
       CallWhileIdsLeft(PutPart(Pkg, asPackageUrl(PathA), "application/xml", content, env), {})
  \/ \E part \in PutHandles : CallWhileIdsLeft(DeletePart(Pkg, part, env), { part })
  \/ \E part \in PutHandles : CallWhileIdsLeft(MakeSpec(Pkg, part), {})
  \/ \E part \in PutHandles : CallWhileIdsLeft(UnmakeSpec(Pkg, part, env), {})
  \/ \E part \in PutHandles : CallWhileIdsLeft(SetThumbnail(Pkg, part), {})
  \/ CallWhileIdsLeft(UnsetThumbnail(Pkg), {})

SpecIds == Init /\ [][NextIds]_vars

HexDigits == "0123456789abcdef"

\* The number a string of lower-case hexadecimal digits stands for.
RECURSIVE HexValue(_)
HexValue(digits) ==
  IF digits = <<>> THEN 0
  ELSE LET last == digits[Len(digits)]
           d == CHOOSE v \in 0..15 : <<last>> = SubSeq(HexDigits, v + 1, v + 1)
       IN  16 * HexValue(SubSeq(digits, 1, Len(digits) - 1)) + d

\* id is 'R' and k as 8 hexadecimal digits.
IsIdOf(id, k) ==
  /\ Len(id) = 9
  /\ id[1] = "R"
  /\ \A i \in 2..9 : \E v \in 0..15 : <<id[i]>> = SubSeq(HexDigits, v + 1, v + 1)
  /\ HexValue(SubSeq(id, 2, 9)) = k

IdsOf(pkg) ==
  LET all == AllRelationships(pkg.relationships)
  IN  { all[i].id : i \in 1..Len(all) }

\* C21: in a created package a step allocates the ids of the counter values
\* it passes, 'R' and the value as 8 hexadecimal digits, one per relationship
\* it adds; the counter never goes down, removals included; the ids present
\* are pairwise distinct, were allocated below the counter, and increase
\* along every bucket.
C21_FreshIds ==
  [][LET new == IdsOf(PkgNext) \ IdsOf(Pkg)
         all == AllRelationships(relationships')
     IN  /\ nextRelID' >= nextRelID
         /\ Cardinality(new) = nextRelID' - nextRelID
         /\ \A id \in new : \E k \in nextRelID..(nextRelID' - 1) : IsIdOf(id, k)
         /\ Cardinality(IdsOf(PkgNext)) = Len(all)
         /\ \A i \in 1..Len(all) : \E k \in 1..(nextRelID' - 1) : IsIdOf(all[i].id, k)
         /\ \A b \in 1..Len(relationships') :
              \A i, j \in 1..Len(relationships'[b][2]) :
                i < j => HexValue(SubSeq(relationships'[b][2][i].id, 2, 9))
                           < HexValue(SubSeq(relationships'[b][2][j].id, 2, 9))]_vars

\* C21: the sixteenth relationship of a created package is there, under the
\* id R00000010, next to a relationship allocated before it.
C21_Witness ==
  /\ nextRelID > 16
  /\ <<"R", "0", "0", "0", "0", "0", "0", "1", "0">> \in IdsOf(Pkg)
  /\ Cardinality(IdsOf(Pkg)) >= 3

\* ---- a package with a spec, a supplementary and a thumbnail ---------------

\* An archive with the origin, the spec /a.xml, its supplementary /b.pdf, and
\* /b.pdf as the thumbnail.
ArchiveGraph ==
  ZipBytes(<< <<RootRelsName,
                XmlBytes("Relationships",
                         <<OriginRel,
                           Rel(<<"r", "I", "d", "2">>, RelationTypeThumbnail, PathB)>>)>>,
              <<trimLeadingSlash(getRelsPath(OriginPath)),
                XmlBytes("Relationships",
                         <<Rel(<<"r", "I", "d", "3">>, RelationTypeAasxSpec, PathA)>>)>>,
              <<trimLeadingSlash(getRelsPath(PathA)),
                XmlBytes("Relationships",
                         <<Rel(<<"r", "I", "d", "4">>, RelationTypeAasxSupplementary, PathB)>>)>>,
              <<OriginEntryName, OriginContent>>,
              <<trimLeadingSlash(PathA), RawBytes("payload")>>,
              <<trimLeadingSlash(PathB), RawBytes("payload")>> >>)

\* SpecGraph: the calls of a caller on the package opened from ArchiveGraph.
NextGraph ==
  \/ OpenReadWriteFromBytes(ArchiveGraph)
  \/ \E uri \in PutURIs, contentType \in ContentTypes, content \in Contents :
       DoPutPart(uri, contentType, content)
  \/ \E part \in Handles : DoDeletePart(part)
  \/ \E part \in Handles : DoMakeSpec(part)
  \/ \E part \in Handles : DoUnmakeSpec(part)
  \/ \E supplementary \in Handles, spec \in Handles :
       DoRelateSupplementaryToSpec(supplementary, spec)
  \/ \E supplementary \in Handles, spec \in Handles :
       DoUnrelateSupplementaryFromSpec(supplementary, spec)

SpecGraph == Init /\ [][NextGraph]_vars

\* The Part objects a caller can hold in SpecGraph.
GraphHandles == { Handle(uri) : uri \in URIs }

\* C22: UnmakeSpec(p) on a spec p returns without an error, keeps every part
\* registered, and leaves no spec relationship from the origin to p and no
\* bucket of p: IsSpec(p) is false, SupplementaryRelationships() has no pair
\* with the spec p, and after a MakeSpec(p) p is a spec without
\* supplementaries.
C22_UnmakeSpecEffect ==
  [][\A p \in GraphHandles :
       (IsSpec(Pkg, p) /\ DoUnmakeSpec(p)) =>
         /\ err' = ""
         /\ parts' = parts
         /\ ~IsSpec(PkgNext, p)
         /\ ~Edge(PkgNext, originURI, pathFromUri(p.URI), RelationTypeAasxSpec)
         /\ ~MapHas(relationships', KeyOf(p))
         /\ LET pairs == SupplementaryRelationships(PkgNext)
            IN  pairs.err = "" =>
                  \A i \in 1..Len(pairs.val) : KeyOf(pairs.val[i].Spec) # KeyOf(p)
         /\ LET again == MakeSpec(PkgNext, p).pkg
            IN  /\ IsSpec(again, p)
                /\ SupplementariesFor(again, p) = Ok(<<>>)]_vars

\* C22: the spec /a.xml, which had the supplementary /b.pdf, was unmade: the
\* two parts are registered, /a.xml is no spec and has no bucket.
C22_Witness ==
  /\ isOpen
  /\ ~hasSink
  /\ calls = 2
  /\ err = ""
  /\ Len(parts) = 3
  /\ Specs(Pkg) = <<>>
  /\ ~MapHas(relationships, PathA)

\* What UnmakeSpec(p) has to leave alone.
UnmakeSpecFrame(p) ==
  /\ BucketOf(PkgNext, <<>>) = BucketOf(Pkg, <<>>)
  /\ \A q \in GraphHandles :
       KeyOf(q) # KeyOf(p) =>
         /\ IsSpec(PkgNext, q) = IsSpec(Pkg, q)
         /\ SupplementariesFor(PkgNext, q) = SupplementariesFor(Pkg, q)

\* C23: UnmakeSpec(p) on a spec p, the origin part included when it is a
\* spec, leaves IsSpec(q) and SupplementariesFor(q) of every other part q and
\* the bucket of the package root as they were.
C23_UnmakeSpecFrame ==
  [][\A p \in GraphHandles : (IsSpec(Pkg, p) /\ DoUnmakeSpec(p)) => UnmakeSpecFrame(p)]_vars

\* The relationships of a bucket that do not have key as their target.
NotTargeting(rels, key) ==
  LET keep(rel) == normalizePathForMap(rel.target) # key
  IN  SelectSeq(rels, keep)

\* The entries of the registry under another key than key.
OtherParts(entries, key) ==
  LET keep(entry) == entry[1] # key
  IN  SelectSeq(entries, keep)

\* What DeletePart(p) has to leave behind.
DeleteEffect(p) ==
  /\ err' = ""
  /\ parts' = OtherParts(parts, KeyOf(p))
  /\ nextRelID' = nextRelID
  /\ originURI' = originURI
  /\ BucketOf(PkgNext, KeyOf(p)) = <<>>
  /\ \A b \in 1..Len(relationships) :
       relationships[b][1] # KeyOf(p) =>
         BucketOf(PkgNext, relationships[b][1]) = NotTargeting(relationships[b][2], KeyOf(p))
  /\ \A b \in 1..Len(relationships') :
       /\ MapHas(relationships, relationships'[b][1])
       /\ relationships'[b][1] # KeyOf(p)

\* C24: DeletePart(p) takes p, and nothing else, out of the registry; every
\* other part keeps its content and content type; the relationships with
\* source p or target p go, every other relationship stays in its bucket with
\* its id and in the order it had; the id counter stays.
C24_DeletePartFrame ==
  [][\A p \in GraphHandles :
       (stale' = stale \cup { p } /\ DoDeletePart(p)) => DeleteEffect(p)]_vars

\* C24: /b.pdf, the thumbnail and the supplementary of /a.xml, was deleted;
\* /a.xml is the spec it was and the root has its origin relationship.
C24_Witness ==
  /\ isOpen
  /\ calls = 2
  /\ Len(parts) = 2
  /\ Handle(asPackageUrl(PathB)) \in stale
  /\ Len(Specs(Pkg)) = 1
  /\ Len(BucketOf(Pkg, <<>>)) = 1

\* ---- PutPartFromStream ----------------------------------------------------

\* What the reader rejects with when the stream fails.
ErrStream == "stream error"

\* The streams handed to PutPartFromStream: the chunks they deliver, and
\* whether the read after the last chunk reports completion or fails.
Streams ==
  { [chunks |-> c, fails |-> f] : c \in { <<>>, <<"ab">>, <<"ab", "c">> }, f \in BOOLEAN }

\* The reduce and the copy loop of PutPartFromStream.
RECURSIVE merged(_)
merged(chunks) == IF chunks = <<>> THEN "" ELSE Head(chunks) \o merged(Tail(chunks))

\* PutPartFromStream up to its first await: the reader is taken, nothing is
\* read yet.
StartPutPartFromStream(uri, contentType, stream) ==
  /\ UNCHANGED <<made, held, input, output>>
  /\ isOpen
  /\ ~reading.active
  /\ Call
  /\ reading' = [active |-> TRUE, uri |-> uri, contentType |-> contentType, stream |-> stream,
                 chunks |-> <<>>]
  /\ UNCHANGED <<parts, relationships, originURI, nextRelID, isOpen, hasSink, sinkData, stale,
                 err, env>>

\* A read that registers what has arrived so far.
ReadChunkRegistering ==
  /\ UNCHANGED <<made, held, input, output>>
  /\ reading.active
  /\ Len(reading.chunks) < Len(reading.stream.chunks)
  /\ reading' = [reading EXCEPT !.chunks = Append(@, reading.stream.chunks[Len(@) + 1])]
  /\ SetPkg(PutPart(Pkg, reading.uri, reading.contentType,
                    RawBytes(merged(reading'.chunks)), env).pkg)
  /\ UNCHANGED <<isOpen, hasSink, sinkData, stale, err, calls, env>>

\* reader.read() resolves with a chunk, which is pushed.
ReadChunk ==
  /\ UNCHANGED <<made, held, input, output>>
  /\ reading.active
  /\ Len(reading.chunks) < Len(reading.stream.chunks)
  /\ reading' = [reading EXCEPT !.chunks = Append(@, reading.stream.chunks[Len(@) + 1])]
  /\ UNCHANGED <<parts, relationships, originURI, nextRelID, isOpen, hasSink, sinkData, stale,
                 err, calls, env>>

\* reader.read() resolves with done: the chunks are merged and PutPart runs,
\* with no await in between.
ReadDone ==
  /\ UNCHANGED <<made, held, input, output>>
  /\ reading.active
  /\ Len(reading.chunks) = Len(reading.stream.chunks)
  /\ ~reading.stream.fails
  /\ LET outcome == PutPart(Pkg, reading.uri, reading.contentType,
                            RawBytes(merged(reading.chunks)), env)
     IN  SetPkg(outcome.pkg) /\ err' = outcome.err
  /\ reading' = NotReading
  /\ UNCHANGED <<isOpen, hasSink, sinkData, stale, calls, env>>

\* reader.read() rejects: PutPartFromStream rejects with it.
ReadFails ==
  /\ UNCHANGED <<made, held, input, output>>
  /\ reading.active
  /\ Len(reading.chunks) = Len(reading.stream.chunks)
  /\ reading.stream.fails
  /\ err' = ErrStream
  /\ reading' = NotReading
  /\ UNCHANGED <<parts, relationships, originURI, nextRelID, isOpen, hasSink, sinkData, stale,
                 calls, env>>

\* SpecStream: PutPartFromStream on a created package, with PutPart,
\* DeletePart and MustPart calls of the caller between its reads.
NextStream ==
  \/ CreateInStream
  \/ \E uri \in { asPackageUrl(PathA), asPackageUrl(PathAUpper) },
        contentType \in BuildContentTypes, stream \in Streams :
       StartPutPartFromStream(uri, contentType, stream)
  \/ ReadChunk
  \/ ReadDone
  \/ ReadFails
  \/ \E content \in Contents : DoPutPart(asPackageUrl(PathA), "application/xml", content)
  \/ \E part \in Handles : DoDeletePart(part)
  \/ DoMustPart(asPackageUrl(PathA))

SpecStream == Init /\ [][NextStream]_vars

\* The bytes of the chunks, one after the other.
RECURSIVE InArrivalOrder(_)
InArrivalOrder(chunks) ==
  IF chunks = <<>> THEN ""
  ELSE InArrivalOrder(SubSeq(chunks, 1, Len(chunks) - 1)) \o chunks[Len(chunks)]

\* C25: the steps of PutPartFromStream that start the read and take a chunk
\* change nothing of the package, so a call made between them finds the
\* package as the other calls left it; the step in which the stream reports
\* completion does what PutPart does with the chunks of the stream, in
\* arrival order, as the content; when the stream fails the call fails and
\* the package is as it was.
C25_StreamIngestion ==
  [][/\ (reading' # reading /\ reading'.active) =>
          UNCHANGED <<parts, relationships, originURI, nextRelID, err>>
     /\ ReadDone =>
          /\ PutEffect(reading.uri, reading.contentType,
                       RawBytes(InArrivalOrder(reading.stream.chunks)))
          /\ ~reading'.active
     /\ ReadFails =>
          /\ UNCHANGED <<parts, relationships, originURI, nextRelID>>
          /\ err' = ErrStream
          /\ ~reading'.active]_vars

\* C25: a part has the content of a stream of two chunks, and the caller
\* deleted a part while the stream was read or after.
C25_Witness ==
  /\ ~reading.active
  /\ stale # {}
  /\ \E i \in 1..Len(parts) : parts[i][2].content = RawBytes("abc")

\* ---- content types --------------------------------------------------------

PathBXml == <<"/", "b", ".", "x", "m", "l">>

PathNoExtension == <<"/", "c">>

\* Two parts with one extension and one without extension.
TypeURIs == { asPackageUrl(PathA), asPackageUrl(PathBXml), asPackageUrl(PathNoExtension) }

\* PutPart takes any string as the content type.
TypeContentTypes == { "application/xml", "text/xml", "" }

\* SpecTypes: parts are put, put again and deleted, in any order, with any
\* of the content types.
NextTypes ==
  \/ CreateInStream
  \/ \E uri \in TypeURIs, contentType \in TypeContentTypes, content \in Contents :
       DoPutPart(uri, contentType, content)
  \/ \E part \in Registered : DoDeletePart(part)

SpecTypes == Init /\ [][NextTypes]_vars

\* Every part of pkg is, in other, registered under its key with its content
\* type.
SameContentTypes(pkg, other) ==
  \A i \in 1..Len(pkg.parts) :
    /\ MapHas(other.parts, pkg.parts[i][1])
    /\ MapGet(other.parts, pkg.parts[i][1]).ContentType = pkg.parts[i][2].ContentType

\* C26: when the flushed bytes open, every part has, in the package opened
\* from them, the content type it had when the bytes were written, whatever
\* the content types, the extensions and the order of the parts.
C26_ContentTypeRoundTrip ==
  isOpen =>
    LET reopened == Reopened(Pkg)
    IN  reopened.err = "" => SameContentTypes(Pkg, reopened.pkg)

\* ---- content types of an opened archive -----------------------------------

\* The Default and Override elements an archive may declare: a default for
\* the extension XML, written in upper case, and one for pdf; an override
\* for /A.xml and one for /c.
DeclaredDefaults ==
  << Element("Default", [Extension |-> <<"X", "M", "L">>, ContentType |-> "text/xml"]),
     Element("Default", [Extension |-> <<"p", "d", "f">>, ContentType |-> "application/pdf"]) >>

DeclaredOverrides ==
  << Element("Override", [PartName |-> PathAUpper, ContentType |-> "application/xml"]),
     Element("Override", [PartName |-> PathNoExtension, ContentType |-> "text/plain"]) >>

\* The entries every such archive has: the origin and the parts a.xml, b.pdf
\* and c.
TypedEntries ==
  << <<RootRelsName, XmlBytes("Relationships", <<OriginRel>>)>>,
     <<OriginEntryName, OriginContent>>,
     <<trimLeadingSlash(PathA), RawBytes("payload")>>,
     <<trimLeadingSlash(PathB), RawBytes("payload")>>,
     <<trimLeadingSlash(PathNoExtension), RawBytes("payload")>> >>

\* The archives with a content-types document that declares some of the
\* elements, and the archive without the document.
TypedArchives ==
  { ZipBytes(<< <<ContentTypePath,
                  XmlBytes("Types",
                           SelectSeq(DeclaredDefaults, LAMBDA e : e \in ds)
                             \o SelectSeq(DeclaredOverrides, LAMBDA e : e \in os))>> >>
               \o TypedEntries) :
      ds \in SUBSET { DeclaredDefaults[i] : i \in 1..2 },
      os \in SUBSET { DeclaredOverrides[i] : i \in 1..2 } }
  \cup { ZipBytes(TypedEntries) }

\* SpecResolve: the calls of a caller on a package opened from one of them.
NextResolve ==
  \/ \E bytes \in TypedArchives : OpenReadWriteFromBytes(bytes)
  \/ \E uri \in PutURIs, contentType \in ContentTypes, content \in Contents :
       DoPutPart(uri, contentType, content)
  \/ \E part \in Handles : DoDeletePart(part)
  \/ \E part \in Handles : DoMakeSpec(part)

SpecResolve == Init /\ [][NextResolve]_vars

\* The elements named name that the content-types document of bytes declares.
Declared(bytes, name) ==
  LET docs == SelectSeq(bytes.entries, LAMBDA entry : entry[1] = ContentTypePath)
  IN  IF docs = <<>> THEN <<>>
      ELSE SelectSeq(docs[1][2].children, LAMBDA e : e.name = name)

\* The lower-cased extension of a path, without the dot.
ExtensionOf(path) ==
  LET base == split(path)[Len(split(path))]
      dots == { i \in 2..Len(base) : base[i] = "." }
  IN  IF dots = {} THEN <<>>
      ELSE toLowerCase(SubSeq(base, (CHOOSE i \in dots : \A j \in dots : j <= i) + 1, Len(base)))

\* The content type the rule gives the part under the canonical path key.
RuleContentType(bytes, key) ==
  LET overrides == SelectSeq(Declared(bytes, "Override"),
                             LAMBDA e : normalizePathForMap(e.attributes.PartName) = key)
      defaults == SelectSeq(Declared(bytes, "Default"),
                            LAMBDA e : toLowerCase(e.attributes.Extension) = ExtensionOf(key))
  IN  IF overrides # <<>> THEN overrides[1].attributes.ContentType
      ELSE IF defaults # <<>> THEN defaults[1].attributes.ContentType
      ELSE OctetStream

\* C27: opening one of the archives succeeds, the one without a
\* content-types document included, and every part has the content type of
\* the override declared for its canonical path, else of the default declared
\* for its lower-cased extension, else application/octet-stream.
C27_ContentTypeOnRead ==
  [][\A bytes \in TypedArchives :
       OpenReadWriteFromBytes(bytes) =>
         /\ err' = ""
         /\ Len(parts') = 4
         /\ \A i \in 1..Len(parts') :
              parts'[i][2].ContentType = RuleContentType(bytes, parts'[i][1])]_vars

\* C27: a package was opened whose /a.xml has the type of its override,
\* whose /b.pdf has the type of the default for pdf, and whose /c has the
\* fallback type.
C27_Witness ==
  /\ isOpen
  /\ calls = 1
  /\ MapHas(parts, PathA) /\ MapGet(parts, PathA).ContentType = "application/xml"
  /\ MapHas(parts, PathB) /\ MapGet(parts, PathB).ContentType = "application/pdf"
  /\ MapHas(parts, PathNoExtension) /\ MapGet(parts, PathNoExtension).ContentType = OctetStream

\* ---- the entries of an opened archive -------------------------------------

\* An entry name of the form _rels/.rels or <dir>/_rels/<base>.rels.
IsRelationshipDocument(name) ==
  LET segments == split(name)
      n == Len(segments)
  IN  /\ n >= 2
      /\ segments[n - 1] = <<"_", "r", "e", "l", "s">>
      /\ Len(segments[n]) >= 5
      /\ SubSeq(segments[n], Len(segments[n]) - 4, Len(segments[n])) = <<".", "r", "e", "l", "s">>

\* An entry that is a part: not the content-types document, not a
\* relationship document, not a directory marker.
IsPayload(name) ==
  /\ name # ContentTypePath
  /\ ~IsRelationshipDocument(name)
  /\ name[Len(name)] # "/"

\* C28: when the flushed bytes open, the parts of the opened package are
\* the entries that are neither the content-types document, nor a
\* relationship document, nor a directory marker, each under its canonical
\* path, and no others.
C28_PayloadEntriesRegistered ==
  isOpen =>
    LET bytes == writeToBytes(Pkg)
        opened == openFromBytes(bytes)
    IN  opened.err = "" =>
          { opened.pkg.parts[i][1] : i \in 1..Len(opened.pkg.parts) }
            = { normalizePathForMap(<<"/">> \o bytes.entries[e][1]) :
                  e \in { e \in 1..Len(bytes.entries) : IsPayload(bytes.entries[e][1]) } }

\* ---- URIs without a path --------------------------------------------------

\* new URL('foo://h'): the pathname is the empty string.
UriNoPath == [protocol |-> <<"f", "o", "o", ":">>, host |-> <<"h">>, pathname |-> <<>>]

OpaqueURIs == { UriNoPath, asPackageUrl(PathA) }

\* SpecOpaque: parts are put, looked up and deleted under a URI with a path
\* and under one without.
NextOpaque ==
  \/ CreateInStream
  \/ \E uri \in OpaqueURIs, contentType \in BuildContentTypes, content \in Contents :
       DoPutPart(uri, contentType, content)
  \/ \E part \in Handles : DoDeletePart(part)
  \/ \E uri \in OpaqueURIs : DoFindPart(uri)
  \/ \E uri \in OpaqueURIs : DoMustPart(uri)

SpecOpaque == Init /\ [][NextOpaque]_vars

\* C29: nothing is registered under a URI without a path: no part has such
\* a URI, and FindPart with such a URI finds nothing.
C29_PathlessRejected ==
  /\ \A i \in 1..Len(parts) : parts[i][2].URI.pathname # <<>>
  /\ isOpen => IsNull(FindPart(Pkg, UriNoPath))

\* ---- the order of the queries ---------------------------------------------

\* The registered targets of the spec relationships of the origin, in the
\* order of the origin's bucket.
SpecTargetsInEdgeOrder(pkg) ==
  LET edges == SelectSeq(BucketOf(pkg, pkg.originURI),
                         LAMBDA rel : /\ rel.relType = RelationTypeAasxSpec
                                      /\ MapHas(pkg.parts, normalizePathForMap(rel.target)))
  IN  [i \in 1..Len(edges) |-> MapGet(pkg.parts, normalizePathForMap(edges[i].target))]

\* The pairs (spec, s) for s in SupplementariesFor(spec), for the first n
\* of the specs, one spec after the other.
RECURSIVE PairsOfFirst(_, _, _)
PairsOfFirst(pkg, specs, n) ==
  IF n = 0 THEN <<>>
  ELSE LET supplementaries == SupplementariesFor(pkg, specs[n]).val
       IN  PairsOfFirst(pkg, specs, n - 1)
             \o [i \in 1..Len(supplementaries) |->
                   [Spec |-> specs[n], Supplementary |-> supplementaries[i]]]

QueriesInOrder(pkg) ==
  /\ Specs(pkg) = SpecTargetsInEdgeOrder(pkg)
  /\ (\A i \in 1..Len(Specs(pkg)) : SupplementariesFor(pkg, Specs(pkg)[i]).err = "")
       => SupplementaryRelationships(pkg)
            = Ok(PairsOfFirst(pkg, Specs(pkg), Len(Specs(pkg))))

\* The relationship ids a caller of SpecOrder may use up.
MaxOrderRelID == 5

\* A call on a created package while the id counter is within MaxOrderRelID;
\* noted is the order of the first MakeSpec calls after it.
CallNoting(outcome, noted) ==
  /\ isOpen
  /\ nextRelID <= MaxOrderRelID
  /\ SetPkg(outcome.pkg)
  /\ err' = outcome.err
  /\ made' = noted
  /\ UNCHANGED <<isOpen, hasSink, sinkData, env, reading, stale, calls, held, input, output>>

\* The order of the first MakeSpec calls after a MakeSpec of the part.
Noting(part) ==
  IF \E i \in 1..Len(made) : made[i] = KeyOf(part) THEN made ELSE Append(made, KeyOf(part))

\* The Part objects of the parts the caller of SpecOrder puts.
OrderHandles == Registered \cap { Handle(asPackageUrl(PathA)), Handle(asPackageUrl(PathB)) }

\* SpecOrder: a created package whose caller puts /a.xml and /b.pdf, makes
\* and unmakes them specs and relates one to the other, in any order.
NextOrder ==
  \/ CreateInStream
  \/ \E uri \in { asPackageUrl(PathA), asPackageUrl(PathB) } :
       CallNoting(PutPart(Pkg, uri, "text/xml", RawBytes("x"), env), made)
  \/ \E part \in OrderHandles : CallNoting(MakeSpec(Pkg, part), Noting(part))
  \/ \E part \in OrderHandles : CallNoting(UnmakeSpec(Pkg, part, env), made)
  \/ \E supplementary \in OrderHandles, spec \in OrderHandles :
       CallNoting(RelateSupplementaryToSpec(Pkg, supplementary, spec, env), made)

SpecOrder == Init /\ [][NextOrder]_vars

\* The keys of the parts Specs() lists, in its order.
SpecKeys(pkg) == [i \in 1..Len(Specs(pkg)) |-> KeyOf(Specs(pkg)[i])]

MaxSegments == 3

\* The segments of the paths: names in both cases, a name that ends in .rels,
\* the folder name _rels, '.', '..' and the empty segment.
PathSegments ==
  { <<"a">>, <<"B">>, <<"d">>, <<"x", ".", "r", "e", "l", "s">>, RelsDir,
    <<".">>, <<".", ".">>, <<>> }

RECURSIVE SegmentLists(_)
SegmentLists(n) ==
  IF n = 0 THEN { <<>> }
  ELSE LET shorter == SegmentLists(n - 1)
       IN  shorter \cup { Append(segs, seg) : segs \in { l \in shorter : Len(l) = n - 1 },
                                              seg \in PathSegments }

\* The paths of one to MaxSegments segments, with and without a leading '/'.
RawPaths ==
  LET relative == { join(segs) : segs \in SegmentLists(MaxSegments) \ { <<>> } }
  IN  (relative \cup { <<"/">> \o path : path \in relative }) \ { <<>> }

\* The source paths the first loop of openFromBytes resolves targets against.
SourcePaths ==
  { <<>>, <<"/", "a", ".", "x", "m", "l">>, <<"/", "d", "/", "s", ".", "x", "m", "l">>,
    <<"/", "D", "/", "e", "/", "s", ".", "x", "m", "l">> }

\* The Target attributes of the relationship documents.
Targets ==
  { <<"/", "a", ".", "x", "m", "l">>,
    <<"/", "D", "/", ".", ".", "/", "a", ".", "x", "m", "l">>,
    <<"a", ".", "x", "m", "l">>,
    <<".", "/", "a", ".", "x", "m", "l">>,
    <<".", ".", "/", "a", ".", "x", "m", "l">>,
    <<".", ".", "/", ".", ".", "/", "a", ".", "x", "m", "l">>,
    <<"d", "/", "a", ".", "x", "m", "l">>,
    <<"D", "/", ".", "/", "B", ".", "x", "m", "l">>,
    <<"\\", "a", ".", "x", "m", "l">>,
    <<"d", "\\", "a", ".", "x", "m", "l">>,
    <<".", ".", "\\", "a", ".", "x", "m", "l">> }

PathInputs ==
  { [path |-> path, target |-> <<>>] : path \in RawPaths \cup { <<>> } }
    \cup { [path |-> source, target |-> target] : source \in SourcePaths, target \in Targets }

InitPaths ==
  /\ parts = <<>>
  /\ relationships = <<>>
  /\ originURI = <<>>
  /\ nextRelID = 1
  /\ isOpen = FALSE
  /\ hasSink = FALSE
  /\ sinkData = EmptyBytes
  /\ stale = {}
  /\ err = ""
  /\ calls = 0
  /\ env \in Environments
  /\ reading = NotReading
  /\ made = <<>>
  /\ held = <<>>
  /\ input \in PathInputs
  /\ output = Null

Returns(result) ==
  /\ output' = result
  /\ UNCHANGED <<parts, relationships, originURI, nextRelID, isOpen, hasSink, sinkData, stale,
                 err, calls, env, reading, made, held, input>>

\* normalizePathForMap(path)
DoNormalizePathForMap ==
  /\ input.target = <<>>
  /\ Returns([of |-> "normalizePathForMap", val |-> normalizePathForMap(input.path)])

\* writeToBytes: getRelsPath(sourcePath) for the key of a bucket.
DoGetRelsPath ==
  /\ input.target = <<>>
  /\ LET sourcePath == normalizePathForMap(input.path)
     IN  Returns([of |-> "getRelsPath", source |-> sourcePath, val |-> getRelsPath(sourcePath)])

\* openFromBytes: getSourcePathFromRelsPath(name) for the entry writeToBytes
\* wrote, files[trimLeadingSlash(relsPath)].
DoGetSourcePathFromRelsPath ==
  /\ output # Null
  /\ output.of = "getRelsPath"
  /\ LET name == trimLeadingSlash(output.val)
     IN  Returns([of |-> "getSourcePathFromRelsPath", source |-> output.source, name |-> name,
                  val |-> getSourcePathFromRelsPath(name)])

\* openFromBytes: resolveRelativeURI(sourcePath, rel.target)
DoResolveRelativeURI ==
  /\ input.target # <<>>
  /\ Returns([of |-> "resolveRelativeURI", val |-> resolveRelativeURI(input.path, input.target)])

NextPaths ==
  \/ DoNormalizePathForMap
  \/ DoGetRelsPath
  \/ DoGetSourcePathFromRelsPath
  \/ DoResolveRelativeURI

\* SpecPaths: one path function is applied to one input, and the inverse
\* mapping to what the forward mapping returned.
SpecPaths == InitPaths /\ [][NextPaths]_vars

Called(name) == output # Null /\ output.of = name

\* <dir(S)>/_rels/<base(S)>.rels for a source with at least one segment.
DocumentPathOf(source) ==
  LET segs == Tail(split(source))
      dir == SubSeq(segs, 1, Len(segs) - 1)
  IN  <<"/">> \o join(dir \o << RelsDir, segs[Len(segs)] \o DotRels >>)

\* C33: the relationship document of the root source is /_rels/.rels and
\* that of any other canonical source S is <dir(S)>/_rels/<base(S)>.rels, and
\* the inverse mapping of the entry name derived from it gives S again; only
\* the entry _rels/.rels maps to the root source.  (The key "/", which names
\* no segment, is left out.)
C33_RelsPathInvertible ==
  /\ (Called("getRelsPath") /\ output.source # <<"/">>) =>
        output.val = IF output.source = <<>> THEN <<"/">> \o RootRelsName
                     ELSE DocumentPathOf(output.source)
  /\ (Called("getSourcePathFromRelsPath") /\ output.source # <<"/">>) =>
        /\ output.val = output.source
        /\ output.val = <<>> => output.name = RootRelsName

\* The segments that remain of a list of segments, read from its end: an
\* empty or '.' segment is dropped, a '..' segment drops itself and the
\* nearest remaining segment before it, if there is one.
RECURSIVE KeptSegments(_, _)
KeptSegments(segs, skip) ==
  IF segs = <<>> THEN <<>>
  ELSE LET last == segs[Len(segs)]
           rest == SubSeq(segs, 1, Len(segs) - 1)
       IN  IF last = <<>> \/ last = <<".">> THEN KeptSegments(rest, skip)
           ELSE IF last = <<".", ".">> THEN KeptSegments(rest, skip + 1)
           ELSE IF skip > 0 THEN KeptSegments(rest, skip - 1)
           ELSE Append(KeptSegments(rest, 0), last)

\* The segments of the parent directory of a source path; none for the root
\* source.
ParentSegments(source) ==
  IF source = <<>> THEN <<>>
  ELSE LET segs == Tail(split(source)) IN SubSeq(segs, 1, Len(segs) - 1)

\* The path a target denotes for a relationship of the source: itself when
\* it starts with '/', else the parent directory of the source followed by
\* the target, '.' and '..' segments resolved.
Denoted(source, target) ==
  IF Head(target) = "/" THEN target
  ELSE <<"/">> \o join(KeptSegments(ParentSegments(source) \o split(target), 0))

\* The key of the part at a path.
KeyAt(path) == toLowerCase(<<"/">> \o join(KeptSegments(split(path), 0)))

WithSlashes(target) == [i \in 1..Len(target) |-> IF target[i] = "\\" THEN "/" ELSE target[i]]

\* C34 as stated: a target that starts with '/' is that path, and any other
\* target is resolved against the parent directory of the source.
C34_AsStated ==
  Called("resolveRelativeURI") =>
    /\ output.val = Denoted(input.path, input.target)
    /\ normalizePathForMap(output.val) = KeyAt(Denoted(input.path, input.target))

\* C34: with every backslash of the target read as '/', a target that starts
\* with '/' is that path, and any other target is resolved against the parent
\* directory of the source (the root for the root source): '.' segments are
\* dropped, '..' removes the segment before it and is dropped at the root;
\* the key of the result is the key of the part at that path.
C34_TargetResolution ==
  Called("resolveRelativeURI") =>
    /\ output.val = Denoted(input.path, WithSlashes(input.target))
    /\ normalizePathForMap(output.val) = KeyAt(Denoted(input.path, WithSlashes(input.target)))

\* C34: ../a.xml recorded for /D/e/s.xml was resolved to /D/a.xml.
C34_Witness ==
  /\ Called("resolveRelativeURI")
  /\ input.path = <<"/", "D", "/", "e", "/", "s", ".", "x", "m", "l">>
  /\ input.target = <<".", ".", "/", "a", ".", "x", "m", "l">>
  /\ output.val = <<"/", "D", "/", "a", ".", "x", "m", "l">>

\* ---- the lookup key as a normal form --------------------------------------

UpperLetters == { "A", "B", "C", "D", "X" }

\* String.prototype.toUpperCase, on the letters of the paths.
UpperChar(c) ==
  CASE c = "a" -> "A"
    [] c = "b" -> "B"
    [] c = "c" -> "C"
    [] c = "d" -> "D"
    [] c = "x" -> "X"
    [] OTHER -> c

\* The path with `extra` put in before its i-th character.
InsertedAt(path, i, extra) == SubSeq(path, 1, i - 1) \o extra \o SubSeq(path, i, Len(path))

\* The positions at which a segment of the path starts.
SegmentStarts(path) == { i \in 1..Len(path) : i = 1 \/ path[i - 1] = "/" }

\* The paths that differ from the path by letter case only, by the leading
\* '/' only, or by one redundant './' or 'x/../'.
Variants(path) ==
  { [i \in 1..Len(path) |-> LowerChar(path[i])], [i \in 1..Len(path) |-> UpperChar(path[i])] }
    \cup (IF Head(path) = "/" THEN { Tail(path) } \ { <<>> } ELSE { <<"/">> \o path })
    \cup { InsertedAt(path, i, <<".", "/">>) : i \in SegmentStarts(path) }
    \cup { InsertedAt(path, i, <<"x", "/", ".", ".", "/">>) : i \in SegmentStarts(path) }

\* The segments of a key; the key '/' has none.
KeySegments(key) == IF key = <<"/">> THEN <<>> ELSE Tail(split(key))

\* C35: the key of a non-empty path starts with '/', has no empty, '.' or
\* '..' segment and no upper-case letter, is its own key, and is the key of
\* every path that differs from the path by letter case, by the leading '/'
\* or by a redundant './' or 'x/../'.
C35_KeyIsNormalForm ==
  (Called("normalizePathForMap") /\ input.path # <<>>) =>
    LET key == output.val
    IN  /\ Head(key) = "/"
        /\ \A i \in 1..Len(KeySegments(key)) :
             KeySegments(key)[i] \notin { <<>>, <<".">>, <<".", ".">> }
        /\ \A i \in 1..Len(key) : key[i] \notin UpperLetters
        /\ normalizePathForMap(key) = key
        /\ \A other \in Variants(input.path) : normalizePathForMap(other) = key

\* C35: d/../B, with an upper-case letter, a '..' segment and no leading
\* '/', got the key /b.
C35_Witness ==
  /\ Called("normalizePathForMap")
  /\ input.path = <<"d", "/", ".", ".", "/", "B">>
  /\ output.val = <<"/", "b">>

\* ---- the arrays the caller holds ------------------------------------------

\* The arrays the caller holds at most.
MaxHeld == 2

\* Uint8Array.prototype.slice(): a new array with the bytes of the array.
slice(array) == [data |-> array.data, sameObject |-> FALSE]

\* An array the caller holds: its bytes, the call it was passed to or
\* returned by, the key of the part of that call, and whether the part's
\* content is this very array.
Held(data, from, key, shared) == [data |-> data, from |-> from, key |-> key, shared |-> shared]

\* The part at the key holds another array from now on.
Replaced(arrays, key) ==
  [i \in 1..Len(arrays) |->
     IF arrays[i].key = key THEN [arrays[i] EXCEPT !.shared = FALSE] ELSE arrays[i]]

OwnFrame ==
  UNCHANGED <<isOpen, hasSink, sinkData, stale, calls, env, reading, made, input, output>>

\* const array = new Uint8Array(...); await pkg.PutPart(uri, contentType, array)
DoPutPartHolding(uri, contentType, content) ==
  /\ isOpen
  /\ Len(held) < MaxHeld
  /\ LET array == [data |-> content]
         bytes == slice(array)
         outcome == PutPart(Pkg, uri, contentType, bytes.data, env)
     IN  /\ SetPkg(outcome.pkg)
         /\ err' = outcome.err
         /\ held' = Append(Replaced(held, normalizeURI(uri)),
                           Held(array.data, "PutPart", normalizeURI(uri), bytes.sameObject))
  /\ OwnFrame

\* const array = part.ReadAllBytes()
DoReadAllBytes(part) ==
  /\ isOpen
  /\ Len(held) < MaxHeld
  /\ LET key == normalizeURI(part.URI)
         bytes == slice([data |-> MapGet(parts, key).content])
     IN  held' = Append(held, Held(bytes.data, "ReadAllBytes", key, bytes.sameObject))
  /\ err' = ""
  /\ UNCHANGED <<parts, relationships, originURI, nextRelID>>
  /\ OwnFrame

\* const array = new Uint8Array(...); part.setContent(array)
DoSetContent(part, content) ==
  /\ isOpen
  /\ Len(held) < MaxHeld
  /\ LET key == normalizeURI(part.URI)
     IN  /\ parts' = MapSet(parts, key, [MapGet(parts, key) EXCEPT !.content = content])
         /\ held' = Append(Replaced(held, key), Held(content, "setContent", key, TRUE))
  /\ err' = ""
  /\ UNCHANGED <<relationships, originURI, nextRelID>>
  /\ OwnFrame

\* array.set(...) on an array the caller holds: the bytes of the array
\* change, and so do those of a part whose content is this array.
MutateArray(i, content) ==
  /\ isOpen
  /\ i \in 1..Len(held)
  /\ held[i].data # content
  /\ held' = [held EXCEPT ![i].data = content]
  /\ parts' = IF held[i].shared /\ MapHas(parts, held[i].key)
                THEN MapSet(parts, held[i].key,
                            [MapGet(parts, held[i].key) EXCEPT !.content = content])
                ELSE parts
  /\ UNCHANGED <<relationships, originURI, nextRelID, err>>
  /\ OwnFrame

OwnURIs == { asPackageUrl(PathA), asPackageUrl(PathB) }

\* SpecOwn: a created package whose caller puts parts from arrays it keeps,
\* reads parts into arrays, sets the content of a Part object it got, and
\* writes into the arrays it holds.
NextOwn ==
  \/ CreateInStream
  \/ \E uri \in OwnURIs, content \in PutContents :
       DoPutPartHolding(uri, "application/xml", content)
  \/ \E part \in Registered : DoReadAllBytes(part)
  \/ \E part \in Registered, content \in PutContents : DoSetContent(part, content)
  \/ \E i \in 1..MaxHeld, content \in PutContents \cup { RawBytes("written") } :
       MutateArray(i, content)

SpecOwn == Init /\ [][NextOwn]_vars

\* C32: a write into an array the caller holds changes no part: what
\* ReadAllBytes, Stream and Flush report afterwards is what they reported
\* before.
C32_PayloadOwned ==
  [][(\E i \in 1..MaxHeld, content \in PutContents \cup { RawBytes("written") } :
        MutateArray(i, content))
       => /\ parts' = parts
          /\ writeToBytes(PkgNext) = writeToBytes(Pkg)]_vars

\* ---- load and flush -------------------------------------------------------

\* The names of the payload entry of an archive: lower case, in a folder
\* with an upper-case letter, and with a space.
ReloadNames ==
  { <<"a", ".", "x", "m", "l">>, <<"D", "/", "a", ".", "x", "m", "l">>,
    <<"a", " ", "b", ".", "x", "m", "l">> }

\* The forms of the target of a relationship of /aasx/aasx-origin to the
\* entry `name`: absolute, relative, and relative with backslashes.
TargetForms(name) ==
  { <<"/">> \o name, <<".", ".", "/">> \o name, <<".", ".", "\\">> \o name }

\* An archive with the origin, the entry `name` as a spec of the origin
\* recorded by `target`, and, when `related`, a relationship document of the
\* entry itself, named with the letters of the entry.
ReloadArchive(name, target, related) ==
  ZipBytes(
    << <<RootRelsName, XmlBytes("Relationships", <<OriginRel>>)>>,
       <<trimLeadingSlash(getRelsPath(OriginPath)),
         XmlBytes("Relationships",
                  <<Rel(<<"r", "I", "d", "7">>, RelationTypeAasxSpec, target)>>)>> >>
    \o (IF related
          THEN << <<dirName(name) \o <<"/">> \o RelsSlash \o baseName(name) \o DotRels,
                    XmlBytes("Relationships",
                             <<Rel(<<"r", "I", "d", "9">>, RelationTypeAasxSupplementary,
                                   OriginEntryName),
                               Rel(<<"r", "I", "d", "8">>, RelationTypeThumbnail,
                                   <<"/">> \o name)>>)>> >>
          ELSE <<>>)
    \o << <<OriginEntryName, OriginContent>>,
          <<name, RawBytes("payload")>> >>)

ReloadArchives ==
  { ReloadArchive(name, target, related) :
      name \in ReloadNames, target \in UNION { TargetForms(n) : n \in ReloadNames },
      related \in BOOLEAN }

\* SpecReload: an archive is opened and flushed, and nothing else is called.
NextReload ==
  \/ \E bytes \in ReloadArchives : OpenReadWriteFromBytes(bytes)
  \/ DoFlush

SpecReload == Init /\ [][NextReload]_vars

\* The relationships of a document, as ids, types and the keys of the
\* targets resolved for the source.
Recorded(source, rels) ==
  [i \in 1..Len(rels) |->
     [id |-> rels[i].id, relType |-> rels[i].relType,
      key |-> normalizePathForMap(resolveRelativeURI(source, rels[i].target))]]

\* The documents of the archives: source and relationships of every entry
\* named like a relationship document.
DocumentsOf(bytes) ==
  LET docs == SelectSeq(bytes.entries, LAMBDA entry : IsRelsName(entry[1]))
  IN  { <<normalizePathForMap(getSourcePathFromRelsPath(docs[i][1])),
          Recorded(getSourcePathFromRelsPath(docs[i][1]), parseRelationshipsXml(docs[i][2]))>> :
          i \in 1..Len(docs) }

\* The buckets of a package as a set.
Graph(pkg) == { <<pkg.relationships[i][1], pkg.relationships[i][2]>> :
                  i \in 1..Len(pkg.relationships) }

\* The parts of a package as a set.
PartSet(pkg) == { <<pkg.parts[i][1], pkg.parts[i][2]>> : i \in 1..Len(pkg.parts) }

\* C31: the bytes Flush writes for a package that was opened and not
\* changed have, for every non-empty bucket, a relationship document at the
\* path getRelsPath gives, with the relationships of the archive: their ids,
\* types, order and the keys of their targets; opening the bytes gives the
\* origin, the parts and the relationships of the package.
C31_LoadFlushPreserves ==
  isOpen =>
    LET written == writeToBytes(Pkg)
        reopened == openFromBytes(written)
    IN  /\ \A i \in 1..Len(relationships) :
             Len(relationships[i][2]) > 0 =>
               LET name == trimLeadingSlash(getRelsPath(relationships[i][1]))
               IN  /\ MapHas(written.entries, name)
                   /\ \A bytes \in ReloadArchives :
                        openFromBytes(bytes).pkg = Pkg =>
                          <<relationships[i][1],
                            Recorded(<<>>, parseRelationshipsXml(MapGet(written.entries, name)))>>
                            \in DocumentsOf(bytes)
        /\ reopened.err = ""
        /\ reopened.pkg.originURI = originURI
        /\ PartSet(reopened.pkg) = PartSet(Pkg)
        /\ Graph(reopened.pkg) = Graph(Pkg)

====
